---- MODULE Spec2Model ----
(***************************************************************************)
(* Model of the interception manager of cdpnetool (package cdp): the       *)
(* paused-event consumer, the worker pool, the per-event handler, the      *)
(* pause/approval coordinator, and the rule engine (package rules).        *)
(***************************************************************************)
EXTENDS Integers, Sequences, FiniteSets, TLC

(* ---------------------------------------------------------------------- *)
(* Bounds of the model                                                     *)
(* ---------------------------------------------------------------------- *)
NumEvents == 3
EventsCap == 1
PendingCap == 1
PoolSize == 1
MaxSpawn == 2

Events == 1..NumEvents
Workers == 1..PoolSize

(* queue: make(chan func(), size*2) *)
newWorkerPool == [sem |-> PoolSize, queueCap |-> PoolSize * 2]

Stages == {"request", "response"}

(* ---------------------------------------------------------------------- *)
(* rulespec.Rewrite values: every field is "nil" or a token                *)
(* ---------------------------------------------------------------------- *)
NilRewrite ==
    [URL |-> "nil", Method |-> "nil", Headers |-> "nil", Query |-> "nil",
     Cookies |-> "nil", Body |-> "nil"]

(* the rewrites Approve is called with *)
RewriteInputs ==
    { NilRewrite,
      [NilRewrite EXCEPT !.URL = "u1"] }

(* rulespec.Pause default actions offered to the model *)
PauseDefaultTypes == {"fail"}

(* every DefaultAction.Type of a rulespec.Pause, "other" being any string *)
(* that is none of the four named ones                                     *)
DefaultActionTypes ==
    {"fulfill", "fail", "continue_original", "continue_mutated", "other"}

(* The Result of decide: NoResult is res == nil || res.Action == nil *)
NoResult == [kind |-> "nil", DropRate |-> FALSE, DelayMS |-> FALSE,
             def |-> "nil", body |-> "nil", rw |-> NilRewrite]

ActionInputs ==
    { NoResult,
      [NoResult EXCEPT !.kind = "none", !.DropRate = TRUE],
      [NoResult EXCEPT !.kind = "fail", !.DelayMS = TRUE],
      [NoResult EXCEPT !.kind = "respond"],
      [NoResult EXCEPT !.kind = "rewrite", !.rw = [NilRewrite EXCEPT !.Headers = "H"]] }
    \cup { [NoResult EXCEPT !.kind = "pause", !.def = d] : d \in PauseDefaultTypes }

(* ---------------------------------------------------------------------- *)
(* Adapter calls issued through m.client.Fetch                             *)
(* ---------------------------------------------------------------------- *)
PlainCall(op) ==
    [op |-> op, url |-> "nil", method |-> "nil", headers |-> "nil",
     body |-> "nil", code |-> "nil"]

applyContinue(stage) ==
    IF stage = "response" THEN PlainCall("ContinueResponse")
    ELSE PlainCall("ContinueRequest")

applyFail == [PlainCall("FailRequest") EXCEPT !.code = "Failed"]

continueResponseWithModifications(status, headers) ==
    [PlainCall("ContinueResponse") EXCEPT !.code = status, !.headers = headers]

fulfillRequest(status, headers, body) ==
    [PlainCall("FulfillRequest") EXCEPT
        !.code = status, !.headers = headers, !.body = body]

applyRespond_fulfill(stage, status, headers, body) ==
    fulfillRequest(status, headers, body)

applyRespond(stage, status, headers, body) ==
    IF stage = "response" /\ body = "nil"
    THEN continueResponseWithModifications(status, headers)
    ELSE fulfillRequest(status, headers, body)

(* bodyOK: the outcome of shouldGetBody, fetchResponseBody and             *)
(* applyBodyPatch taken together                                           *)
applyResponseRewrite(rw, bodyOK) ==
    IF rw.Body = "nil"
    THEN IF rw.Headers # "nil"
         THEN [PlainCall("ContinueResponse") EXCEPT !.headers = rw.Headers]
         ELSE PlainCall("ContinueResponse")
    ELSE IF ~bodyOK
         THEN PlainCall("ContinueResponse")
         ELSE [PlainCall("FulfillRequest") EXCEPT
                 !.code = "orig", !.headers = rw.Headers, !.body = rw.Body]

buildRequestHeaders(rw) ==
    IF rw.Headers # "nil" THEN rw.Headers
    ELSE IF rw.Cookies # "nil" THEN rw.Cookies
    ELSE "nil"

buildRequestBody(rw, bodyOK) ==
    IF rw.Body = "nil" THEN "nil"
    ELSE IF bodyOK THEN rw.Body ELSE "nil"

applyRequestRewrite(rw, bodyOK) ==
    [PlainCall("ContinueRequest") EXCEPT
        !.url = IF rw.URL # "nil" THEN rw.URL
                ELSE IF rw.Query # "nil" THEN rw.Query ELSE "nil",
        !.method = rw.Method,
        !.headers = buildRequestHeaders(rw),
        !.body = buildRequestBody(rw, bodyOK)]

applyRewrite(stage, rw, bodyOK) ==
    IF stage = "response" THEN applyResponseRewrite(rw, bodyOK)
    ELSE applyRequestRewrite(rw, bodyOK)

hasEffectiveMutations(mut) ==
    \/ mut.Body # "nil" \/ mut.URL # "nil" \/ mut.Method # "nil"
    \/ mut.Headers # "nil" \/ mut.Query # "nil" \/ mut.Cookies # "nil"

applyPauseDefaultAction(def, stage) ==
    CASE def = "fulfill" -> applyRespond(stage, "S", "nil", "nil")
      [] def = "fail" -> applyFail
      [] def = "continue_mutated" -> applyContinue(stage)
      [] OTHER -> applyContinue(stage)

TerminatingOps ==
    {"ContinueRequest", "ContinueResponse", "FulfillRequest", "FailRequest"}

(* ---------------------------------------------------------------------- *)
(* Rule engine (package rules): Engine.Eval                                *)
(* ---------------------------------------------------------------------- *)
MaxRules == 3
MaxPriority == 2
MaxUpdates == 1

Modes == {"short_circuit", "aggregate"}

(* a model.Rule as Eval sees it: match is matchRule(ctx, r.Match) for the *)
(* context of the evaluation                                               *)
Rules == [Priority : 1..MaxPriority, Mode : Modes, match : BOOLEAN]

RuleLists == UNION { [1..n -> Rules] : n \in 0..MaxRules }

(* the rule sets Update is called with *)
UpdateInputs ==
    { <<>>,
      <<[Priority |-> 1, Mode |-> "aggregate", match |-> TRUE]>> }

(* the body of the loop of Eval for rule r: whether r becomes chosen *)
Chooses(r, chosenRule) ==
    r.match /\ (chosenRule = <<>> \/ r.Priority > chosenRule[1].Priority)

(* ---------------------------------------------------------------------- *)
(* Attach, Enable, Detach: the binding of the manager to a browser target  *)
(* ---------------------------------------------------------------------- *)
MaxContexts == 3
MaxConsume == 2
MaxTasks == 2
MaxPools == 1
MaxWorkers == 2
MaxPaused == 2

Contexts == 1..MaxContexts
Pools == 1..MaxPools
Paused == 1..MaxPaused

(* ids of the targets the browser lists *)
Targets == {"t1", "t2"}

(* ---------------------------------------------------------------------- *)
(* Rule context, conditions, body gate and body patch                      *)
(* ---------------------------------------------------------------------- *)

MaxHeaders == 2
MaxDigits == 3
MaxOps == 2

(* the width the model gives int64, and the default threshold of          *)
(* shouldGetBody (4 MiB) counted in units of 2^20 bytes                    *)
IntBits == 8
DefaultThreshold == 4

(* A header name is its lower-case spelling together with the way it is   *)
(* capitalised: two names are the same string iff both parts are equal.    *)
(* The Content-Length header of an event is kept apart from its other      *)
(* headers (ev.ContentLength, a string of bytes, empty when there is none) *)
LowerNames == {"content-type", "x-a"}
Caps == {"lower", "Title"}
Names == LowerNames \X Caps

ToLower(k) == <<k[1], "lower">>
EqualFold(a, b) == a[1] = b[1]

(* the name a lower-case string literal of the source denotes *)
Lit(s) == <<s, "lower">>

(* header maps with at most MaxHeaders entries *)
HeaderMaps(names, values) ==
    UNION { [D -> values] : D \in { X \in SUBSET names : Cardinality(X) <= MaxHeaders } }

(* the maps the lower-casing loop over a Go map can end with: for names   *)
(* that differ in case only, the entry written last wins                   *)
LowerCased(h) ==
    { m \in [ { ToLower(k) : k \in DOMAIN h } -> { h[k] : k \in DOMAIN h } ] :
        \A lk \in DOMAIN m : \E k \in DOMAIN h : ToLower(k) = lk /\ m[lk] = h[k] }

(* the values a loop with strings.EqualFold(k, name) can end with *)
FoldValues(h, name, none) ==
    IF \E k \in DOMAIN h : EqualFold(k, name)
    THEN { h[k] : k \in { x \in DOMAIN h : EqualFold(x, name) } }
    ELSE {none}

(* int64, at a width of IntBits bits *)
Wrap(x) == ((x + 2^(IntBits - 1)) % 2^IntBits) - 2^(IntBits - 1)

(* a string of bytes: 0..9 are the digits, 10 is any other byte *)
ContentLengths ==
    UNION { [1..n -> 0..9] : n \in 1..MaxDigits } \cup { <<10>> }

RECURSIVE parseDigits(_, _, _)
parseDigits(s, i, n) ==
    IF i > Len(s) THEN [err |-> FALSE, n |-> n]
    ELSE IF s[i] < 0 \/ s[i] > 9 THEN [err |-> TRUE, n |-> 0]
    ELSE parseDigits(s, i + 1, Wrap(n * 10 + s[i]))

parseInt64(s) == parseDigits(s, 1, 0)

(* the number a string of decimal digits denotes *)
RECURSIVE Denotes(_, _)
Denotes(s, i) ==
    IF i = 0 THEN 0 ELSE Denotes(s, i - 1) * 10 + s[i]

IsDigits(s) == \A i \in DOMAIN s : s[i] \in 0..9

(* strings.HasPrefix(lc, "text/") or strings.HasPrefix(lc, "application/json") *)
ContentTypes == {"text/plain", "application/json", "image/png"}
hasTextPrefix(ctype) == ctype \in {"text/plain", "application/json"}

(* the threshold shouldGetBody compares with *)
threshold(thr) == IF thr <= 0 THEN DefaultThreshold ELSE thr

shouldGetBody(ctype, clen, thr) ==
    IF clen > 0 /\ clen > threshold(thr) THEN FALSE ELSE hasTextPrefix(ctype)

(* clen of buildRuleContext and of extractResponseMetadata: 0 unless the  *)
(* header is there and parses                                              *)
clenOf(v) ==
    IF v = <<>> THEN 0
    ELSE IF parseInt64(v).err THEN 0 ELSE parseInt64(v).n

(* JSON documents: objects with number members; JSON Pointers of one token *)
Keys == {"j", "k"}
Vals == {1, 2}
Docs == UNION { [D -> Vals] : D \in SUBSET Keys }
EmptyDoc == [x \in {} |-> 1]

JSONPatchOps ==
    [Op : {"add", "replace", "test"}, Path : Keys, Value : Vals, From : {"k"}]
      \cup [Op : {"remove"}, Path : Keys, Value : {1}, From : {"k"}]
      \cup [Op : {"copy", "move"}, Path : Keys, Value : {1}, From : Keys]

Patches == UNION { [1..n -> JSONPatchOps] : n \in 1..MaxOps }

getByPtr(v, k) == [ok |-> k \in DOMAIN v, val |-> IF k \in DOMAIN v THEN v[k] ELSE 0]

setByPtr(v, k, val) == [x \in DOMAIN v \cup {k} |-> IF x = k THEN val ELSE v[x]]

removeByPtr(v, k) == [x \in DOMAIN v \ {k} |-> v[x]]

(* the loop of applyJSONPatch from operation i on; why names the          *)
(* operation that made the patch fail                                      *)
RECURSIVE applyOps(_, _, _)
applyOps(v, ops, i) ==
    IF i > Len(ops) THEN [ok |-> TRUE, why |-> "", doc |-> v]
    ELSE LET op == ops[i]
             src == getByPtr(v, op.From)
             cur == getByPtr(v, op.Path)
             failed(w) == [ok |-> FALSE, why |-> w, doc |-> EmptyDoc]
         IN  CASE op.Op \in {"add", "replace"} ->
                    applyOps(setByPtr(v, op.Path, op.Value), ops, i + 1)
               [] op.Op = "remove" ->
                    applyOps(removeByPtr(v, op.Path), ops, i + 1)
               [] op.Op = "copy" ->
                    IF ~src.ok THEN failed("copy")
                    ELSE applyOps(setByPtr(v, op.Path, src.val), ops, i + 1)
               [] op.Op = "move" ->
                    IF ~src.ok THEN failed("move")
                    ELSE applyOps(setByPtr(removeByPtr(v, op.From), op.Path, src.val),
                                  ops, i + 1)
               [] op.Op = "test" ->
                    IF ~cur.ok \/ cur.val # op.Value THEN failed("test")
                    ELSE applyOps(v, ops, i + 1)

applyJSONPatch(doc, ops) == applyOps(doc, ops, 1)

(* applyBodyPatch with a BodyPatch that holds a JSON Patch: no operation  *)
(* gives no body                                                           *)
applyBodyPatch(src, ops) ==
    IF Len(ops) > 0 THEN applyJSONPatch(src, ops)
    ELSE [ok |-> FALSE, why |-> "empty", doc |-> EmptyDoc]

(* a model.Condition of type header *)
Conditions(keys, values) ==
    [Type : {"header"}, Key : keys, Op : {"equals"}, Value : values]

(* strings.Contains on strings given as sequences of characters *)
Contains(v, s) ==
    \E i \in 0..(Len(v) - Len(s)) : SubSeq(v, i + 1, i + Len(s)) = s

(* matchRegex for patterns that are literal strings; a pattern holding "(" *)
(* does not compile                                                         *)
matchRegex(v, pattern) ==
    IF \E i \in DOMAIN pattern : pattern[i] = "(" THEN FALSE
    ELSE Contains(v, pattern)

(* the header, query and cookie cases of cond: v, ok := map[c.Key] *)
keyed(mp, c) ==
    IF c.Key \notin DOMAIN mp THEN FALSE
    ELSE CASE c.Op = "equals" -> mp[c.Key] = c.Value
           [] c.Op = "contains" -> Contains(mp[c.Key], c.Value)
           [] c.Op = "regex" -> matchRegex(mp[c.Key], c.Value)
           [] OTHER -> TRUE

(* the url, method, text and json_pointer cases are not drawn by any      *)
(* specification; every other Type is the default case                     *)
cond(ctx, c) ==
    CASE c.Type = "header" -> keyed(ctx.Headers, c)
      [] c.Type = "query" -> keyed(ctx.Query, c)
      [] c.Type = "cookie" -> keyed(ctx.Cookies, c)
      [] OTHER -> FALSE

allOf(ctx, cs) == \A i \in DOMAIN cs : cond(ctx, cs[i])

anyOf(ctx, cs) == \E i \in DOMAIN cs : cond(ctx, cs[i])

noneOf(ctx, cs) == ~anyOf(ctx, cs)

matchRule_allOf(ctx, m) == allOf(ctx, m.AllOf)

matchRule(ctx, m) ==
    /\ Len(m.AllOf) > 0 => allOf(ctx, m.AllOf)
    /\ Len(m.AnyOf) > 0 => anyOf(ctx, m.AnyOf)
    /\ Len(m.NoneOf) > 0 => noneOf(ctx, m.NoneOf)

NoCtx == [Headers |-> EmptyDoc, ContentType |-> "", hasBody |-> FALSE, Stage |-> ""]
NoBody == [ok |-> FALSE, why |-> "none", doc |-> EmptyDoc]

(* ---------------------------------------------------------------------- *)
(* RequestMutation and ResponseMutation, and their merge                   *)
(* ---------------------------------------------------------------------- *)

MaxMatched == 2

MapKeys == {"k1", "k2"}
MapVals == {"a", "b"}
NoMap == [k \in {} |-> "a"]
Maps == UNION { [D -> MapVals] : D \in SUBSET MapKeys }
Lists == {<<>>, <<"k1">>, <<"k2">>}

(* a mutation with nothing set: scalars are "nil" or a value *)
NilMutation ==
    [Block |-> FALSE, URL |-> "nil", Method |-> "nil", StatusCode |-> "nil",
     Body |-> "nil", Headers |-> NoMap, Query |-> NoMap, Cookies |-> NoMap,
     RemoveHeaders |-> <<>>, RemoveQuery |-> <<>>, RemoveCookies |-> <<>>]

(* the mutations ExecuteRequestActions returns to the model *)
RequestMutations ==
    { [NilMutation EXCEPT !.URL = v] : v \in {"nil", "a", "b"} }
      \cup { [NilMutation EXCEPT !.Method = v] : v \in {"a", "b"} }
      \cup { [NilMutation EXCEPT !.Body = v] : v \in {"a", "b"} }
      \cup { [NilMutation EXCEPT !.Headers = h] : h \in Maps }
      \cup { [NilMutation EXCEPT !.Query = h] : h \in Maps }
      \cup { [NilMutation EXCEPT !.Cookies = h] : h \in Maps }
      \cup { [NilMutation EXCEPT !.RemoveHeaders = l] : l \in Lists }
      \cup { [NilMutation EXCEPT !.RemoveQuery = l] : l \in Lists }
      \cup { [NilMutation EXCEPT !.RemoveCookies = l] : l \in Lists }
      \cup { [NilMutation EXCEPT !.URL = v, !.Method = v, !.Body = v,
                !.Headers = [k \in MapKeys |-> v], !.Query = [k \in {"k1"} |-> v],
                !.Cookies = [k \in {"k2"} |-> v], !.RemoveHeaders = <<"k1">>,
                !.RemoveQuery = <<"k2">>, !.RemoveCookies = <<"k1">>] :
             v \in {"a", "b"} }
      \cup { [NilMutation EXCEPT !.Block = TRUE] }

(* the mutations ExecuteResponseActions returns to the model *)
ResponseMutations ==
    { [NilMutation EXCEPT !.StatusCode = v] : v \in {"nil", "a", "b"} }
      \cup { [NilMutation EXCEPT !.Body = v] : v \in {"a", "b"} }
      \cup { [NilMutation EXCEPT !.Headers = h] : h \in Maps }
      \cup { [NilMutation EXCEPT !.RemoveHeaders = l] : l \in Lists }
      \cup { [NilMutation EXCEPT !.StatusCode = v, !.Body = v,
                !.Headers = [k \in MapKeys |-> v], !.RemoveHeaders = <<"k1">>] :
             v \in {"a", "b"} }

(* for k, v := range src { dst[k] = v } *)
putAll(dst, src) ==
    [k \in DOMAIN dst \cup DOMAIN src |-> IF k \in DOMAIN src THEN src[k] ELSE dst[k]]

(* the merge with the earlier writer winning *)
mergeRequestMutation_dstwins(dst, src) ==
    [dst EXCEPT
        !.URL = IF @ # "nil" THEN @ ELSE src.URL,
        !.Method = IF @ # "nil" THEN @ ELSE src.Method,
        !.Headers = putAll(src.Headers, @),
        !.Query = putAll(src.Query, @),
        !.Cookies = putAll(src.Cookies, @),
        !.RemoveHeaders = @ \o src.RemoveHeaders,
        !.RemoveQuery = @ \o src.RemoveQuery,
        !.RemoveCookies = @ \o src.RemoveCookies,
        !.Body = IF @ # "nil" THEN @ ELSE src.Body]

mergeRequestMutation(dst, src) ==
    [dst EXCEPT
        !.URL = IF src.URL # "nil" THEN src.URL ELSE @,
        !.Method = IF src.Method # "nil" THEN src.Method ELSE @,
        !.Headers = putAll(@, src.Headers),
        !.Query = putAll(@, src.Query),
        !.Cookies = putAll(@, src.Cookies),
        !.RemoveHeaders = @ \o src.RemoveHeaders,
        !.RemoveQuery = @ \o src.RemoveQuery,
        !.RemoveCookies = @ \o src.RemoveCookies,
        !.Body = IF src.Body # "nil" THEN src.Body ELSE @]

mergeResponseMutation(dst, src) ==
    [dst EXCEPT
        !.StatusCode = IF src.StatusCode # "nil" THEN src.StatusCode ELSE @,
        !.Headers = putAll(@, src.Headers),
        !.RemoveHeaders = @ \o src.RemoveHeaders,
        !.Body = IF src.Body # "nil" THEN src.Body ELSE @]

hasRequestMutation(m) ==
    \/ m.URL # "nil" \/ m.Method # "nil"
    \/ DOMAIN m.Headers # {} \/ DOMAIN m.Query # {} \/ DOMAIN m.Cookies # {}
    \/ Len(m.RemoveHeaders) > 0 \/ Len(m.RemoveQuery) > 0 \/ Len(m.RemoveCookies) > 0
    \/ m.Body # "nil"

hasResponseMutation(m) ==
    \/ m.StatusCode # "nil" \/ DOMAIN m.Headers # {}
    \/ Len(m.RemoveHeaders) > 0 \/ m.Body # "nil"

(* the executor's ApplyRequestMutation and ApplyResponseMutation: a block *)
(* fails the request, any other mutation continues with it                 *)
ApplyRequestMutation(mut) ==
    IF mut.Block THEN [op |-> "FailRequest", reason |-> "Failed", mut |-> NilMutation]
    ELSE [op |-> "ContinueRequest", reason |-> "", mut |-> mut]

ApplyResponseMutation(mut) ==
    [op |-> IF mut.Body # "nil" THEN "FulfillRequest" ELSE "ContinueResponse",
     reason |-> "", mut |-> mut]

NoCall == [op |-> "none", reason |-> "", mut |-> NilMutation]
NoEvent == [Type |-> "none", Rules |-> {}]

(* one entry of matchedRules: the rule (its ID is its place in the rule   *)
(* set), and what executing its actions gives: "noactions" (no actions),   *)
(* "nil" (a nil mutation) or "mut"                                         *)
MatchedRules(muts) ==
    UNION { [1..n -> [kind : {"mut"}, mut : muts]
                       \cup [kind : {"noactions", "nil"}, mut : {NilMutation}]] :
            n \in 1..MaxMatched }

(* ---------------------------------------------------------------------- *)
(* State of one Manager                                                    *)
(* ---------------------------------------------------------------------- *)
VARIABLES
    poolMode,    \* "go": m.pool == nil or m.pool.sem == nil; "sem": bounded pool
    pendingNil,  \* m.pending == nil
    ctxDone,     \* m.ctx has been cancelled
    received,    \* number of events the stream has delivered to consume
    cpc,         \* position of the consume goroutine
    cev,         \* the event consume holds (0: none)
    fate,        \* per event: how dispatchPaused disposed of it
    queue,       \* pool.queue, the events whose handler closure is queued
    wstate,      \* per worker: "idle", "busy", "exited"
    wev,         \* per worker: the event whose handler it runs (0: none)
    hpc,         \* per event: position of its handle call
    stage,       \* per event: stg of its handle call
    path,        \* per event: the branch handle took
    act,         \* per event: the action decide returned
    mut,         \* per event: what waitForApproval received from the channel
    expired,     \* per event: its per-event context expired before its call
    timer,       \* per event: the pause timer has fired
    approvals,   \* keys of m.approvals
    apch,        \* per event: buffer of its approval channel (capacity 1)
    pending,     \* m.pending channel
    events,      \* len(m.events): the events buffered in the channel
    calls,       \* per event in handling: adapter calls issued for its requestID
    emits,       \* per event in handling: event types sent to m.events for it
    answered,    \* events for which a terminating adapter call was issued
    rs,          \* Engine.rs.Rules, the rule list of the engine
    version,     \* number of Update calls so far (identifies the rule set)
    epc,         \* position of one Eval call
    en,          \* Eval: the length the range loop runs to
    ei,          \* Eval: the loop index (1-based)
    chosen,      \* Eval: <<>> (nil) or <<rule, version, index>>
    reads,       \* Eval: versions of the rule sets its reads came from
    fixedTarget,   \* m.fixedTarget ("": none)
    mode,          \* m.mode: "auto" (workspaceModeAutoFollow) or "fixed"
    currentTarget, \* m.currentTarget ("": none)
    mctx,          \* m.ctx: the number of the binding's context (0: nil)
    cancelled,     \* the contexts that were cancelled
    hasClient,     \* m.client != nil
    connOpen,      \* m.conn is an open connection
    workspaceStop, \* m.workspaceStop != nil: the polling loop runs
    watchers,      \* keys of m.watchers
    consumers,     \* per context: consume goroutines reading its paused stream
    tasks,         \* attachAndEnable calls in progress
    pinned,        \* target of the last explicit AttachTarget(T) that succeeded
    detached,      \* Detach was the last explicit call
    cause,         \* what created the context m.ctx
    ev,                \* one paused event: its stage, headers and body
    rule,              \* the one rule of the engine: conditions and rewrite
    bodySizeThreshold, \* m.bodySizeThreshold
    rctx,              \* the rules.Ctx buildRuleContext returned
    matched,           \* the result of matchRule
    bodyCalls,         \* number of GetResponseBody calls issued for the event
    newBody,           \* what the body patch of the rewrite came to
    out,               \* the terminating call issued for the event
    fpc,               \* position of the handling of the event
    impl,              \* "manager": executeRequestStage; "handler": Handler.HandleRequest
    sstage,            \* the stage whose matched rules are executed
    matchedRules,      \* what EvalForStage returned, in its order
    aggregatedMut,     \* <<>> (nil) or <<the aggregated mutation>>
    si,                \* index of the loop over matchedRules (1-based)
    executed,          \* indexes of the rules whose actions were executed
    blockRule,         \* index of the rule that yielded a block (0: none)
    responseBody,      \* responseBody / currentBody of the response stage
    originalBody,      \* the body GetResponseBody returned ("": none, or failed)
    ranOn,             \* per executed rule: the body its actions were executed against
    arg,               \* the arguments of the calls made so far, in call order
    ret,               \* what each of those calls returned or issued
    scall,             \* the call issued for the event
    sevent,            \* the event sent for the event
    spc,               \* position in the stage execution
    ticking,           \* a checkWorkspace call has listed the targets
    failed,            \* the last AttachTarget of the user returned an error
    fetchEnabled,      \* Fetch is enabled on the current connection
    mclient,           \* the binding whose connection m.client uses (0: nil)
    mpool,             \* m.pool: 0 (nil), or the pool SetConcurrency made last
    stopMonitor,       \* m.pool.stopMonitor: "nil", "open" or "closed"; "panicked"
                       \* once it was closed a second time
    idle,              \* per pool and context: its workers waiting in select
    pq,                \* per pool: its queue
    xpc,               \* per paused event: position of its handling
    origin,            \* per paused event: the binding whose stream delivered it
    parent,            \* per paused event: the binding whose context handle derived from
    via,               \* per paused event: the binding whose connection answered it
    xwork              \* per paused event: <<pool, context>> of the worker running it

mvars == <<poolMode, pendingNil, ctxDone, received, cpc, cev, fate, queue,
           wstate, wev, hpc, stage, path, act, mut, expired, timer, approvals,
           apch, pending, events, calls, emits, answered>>

evars == <<rs, version, epc, en, ei, chosen, reads>>

lvars == <<fixedTarget, mode, currentTarget, mctx, cancelled, hasClient, connOpen,
           workspaceStop, watchers, consumers, tasks, pinned, detached, cause>>

rvars == <<ev, rule, bodySizeThreshold, rctx, matched, bodyCalls, newBody, out, fpc>>

fvars == <<arg, ret>>

svars == <<impl, sstage, matchedRules, aggregatedMut, si, executed, blockRule,
           responseBody, originalBody, ranOn, scall, sevent, spc, fvars>>

xvars == <<ticking, failed, fetchEnabled, mclient, mpool, stopMonitor, idle, pq,
           xpc, origin, parent, via, xwork>>

vars == <<mvars, evars, lvars, rvars, svars, xvars>>

cvars == <<received, cpc, cev, fate>>
pvars == <<queue, wstate, wev>>
hvars == <<hpc, stage, path, act, mut, expired>>
avars == <<timer, approvals, apch, pending>>
cfgvars == <<poolMode, pendingNil, ctxDone>>

InitEngine ==
    /\ version = 0
    /\ epc = "idle"
    /\ en = 0
    /\ ei = 0
    /\ chosen = <<>>
    /\ reads = {}

InitManager ==
    /\ poolMode \in {"go", "sem"}
    /\ pendingNil \in BOOLEAN
    /\ ctxDone = FALSE
    /\ received = 0
    /\ cpc = "recv"
    /\ cev = 0
    /\ fate = [e \in Events |-> "stream"]
    /\ queue = <<>>
    /\ wstate = [w \in Workers |-> "idle"]
    /\ wev = [w \in Workers |-> 0]
    /\ hpc = [e \in Events |-> "none"]
    /\ stage = [e \in Events |-> "request"]
    /\ path = [e \in Events |-> "none"]
    /\ act = [e \in Events |-> NoResult]
    /\ mut = [e \in Events |-> NilRewrite]
    /\ expired = [e \in Events |-> FALSE]
    /\ timer = [e \in Events |-> FALSE]
    /\ approvals = {}
    /\ apch = [e \in Events |-> <<>>]
    /\ pending = <<>>
    /\ events = 0
    /\ calls = [e \in Events |-> <<>>]
    /\ emits = [e \in Events |-> <<>>]
    /\ answered = {}

(* New: no binding yet *)
InitBinding ==
    /\ fixedTarget = ""
    /\ mode = "auto"
    /\ currentTarget = ""
    /\ mctx = 0
    /\ cancelled = {}
    /\ hasClient = FALSE
    /\ connOpen = FALSE
    /\ workspaceStop = FALSE
    /\ watchers = {}
    /\ consumers = [g \in Contexts |-> 0]
    /\ tasks = {}
    /\ pinned = ""
    /\ detached = FALSE
    /\ cause = "none"

(* no event is being matched and rewritten *)
InitRule ==
    /\ ev = [stage |-> "request", Headers |-> EmptyDoc, ContentLength |-> <<>>,
             Body |-> EmptyDoc]
    /\ rule = [AllOf |-> <<>>, AnyOf |-> <<>>, NoneOf |-> <<>>,
               rw |-> NilRewrite, patch |-> <<>>]
    /\ bodySizeThreshold = 0
    /\ rctx = NoCtx
    /\ matched = FALSE
    /\ bodyCalls = 0
    /\ newBody = NoBody
    /\ out = PlainCall("none")
    /\ fpc = "idle"

(* no call has been made *)
InitCallIdle ==
    /\ arg = <<>>
    /\ ret = <<>>

(* no stage is being executed *)
InitStageIdle ==
    /\ InitCallIdle
    /\ impl = "manager"
    /\ sstage = "request"
    /\ matchedRules = <<>>
    /\ aggregatedMut = <<>>
    /\ si = 0
    /\ executed = {}
    /\ blockRule = 0
    /\ responseBody = ""
    /\ originalBody = ""
    /\ ranOn = <<>>
    /\ scall = NoCall
    /\ sevent = NoEvent
    /\ spc = "idle"

(* New: no pool, no client; nothing received *)
InitPool ==
    /\ ticking = FALSE
    /\ failed = FALSE
    /\ fetchEnabled = FALSE
    /\ mclient = 0
    /\ mpool = 0
    /\ stopMonitor = "nil"
    /\ idle = [p \in Pools |-> [g \in Contexts |-> 0]]
    /\ pq = [p \in Pools |-> <<>>]
    /\ xpc = [x \in Paused |-> "none"]
    /\ origin = [x \in Paused |-> 0]
    /\ parent = [x \in Paused |-> 0]
    /\ via = [x \in Paused |-> 0]
    /\ xwork = [x \in Paused |-> <<0, 0>>]

Init ==
    /\ InitManager
    /\ InitEngine
    /\ InitBinding
    /\ InitPool
    /\ InitRule
    /\ InitStageIdle
    /\ rs = <<>>

(* ---------------------------------------------------------------------- *)
(* consume and dispatchPaused                                              *)
(* ---------------------------------------------------------------------- *)

(* without a bounded pool every event gets its own goroutine: the model   *)
(* lets the stream deliver MaxSpawn events in that mode                    *)
StreamLen == IF poolMode = "sem" THEN NumEvents ELSE MaxSpawn

(* rp.Recv() returns the next paused event *)
Recv ==
    /\ cpc = "recv"
    /\ ~ctxDone
    /\ received < StreamLen
    /\ received' = received + 1
    /\ cev' = received + 1
    /\ cpc' = "dispatch"
    /\ fate' = [fate EXCEPT ![received + 1] = "recv"]
    /\ UNCHANGED <<xvars, svars, rvars, lvars, evars, cfgvars, pvars, hvars, avars, events, calls, emits, answered>>

(* rp.Recv() fails after the context is cancelled; handleStreamError      *)
(* returns because m.ctx.Err() != nil                                      *)
RecvError ==
    /\ cpc = "recv"
    /\ ctxDone
    /\ cpc' = "stopped"
    /\ UNCHANGED <<xvars, svars, rvars, lvars, evars, cfgvars, received, cev, fate, pvars, hvars, avars, events,
                   calls, emits, answered>>

(* a submit that enqueues whatever the length of the queue *)
submit_always(q, e) == Append(q, e)

(* workerPool.submit: select { case p.queue <- fn: return true; default: return false } *)
submitted(q) == Len(q) < newWorkerPool.queueCap

submit(q, e) == IF submitted(q) THEN Append(q, e) ELSE q

(* dispatchPaused with m.pool == nil, or submit with p.sem == nil: go handle *)
DispatchGo ==
    /\ cpc = "dispatch"
    /\ poolMode = "go"
    /\ hpc' = [hpc EXCEPT ![cev] = "intercepted"]
    /\ fate' = [fate EXCEPT ![cev] = "spawned"]
    /\ cpc' = "recv"
    /\ cev' = 0
    /\ UNCHANGED <<xvars, svars, rvars, lvars, evars, expired, cfgvars, received, pvars, stage, path, act, mut, avars,
                   events, calls, emits, answered>>

(* dispatchPaused with a bounded pool: submit, and degrade when it fails *)
DispatchSubmit ==
    /\ cpc = "dispatch"
    /\ poolMode = "sem"
    /\ queue' = submit(queue, cev)
    /\ IF submitted(queue)
       THEN /\ fate' = [fate EXCEPT ![cev] = "queued"]
            /\ cpc' = "recv"
            /\ cev' = 0
       ELSE /\ fate' = [fate EXCEPT ![cev] = "dropped"]
            /\ cpc' = "degrade_call"
            /\ cev' = cev
    /\ UNCHANGED <<xvars, svars, rvars, lvars, evars, cfgvars, received, wstate, wev, hvars, avars, events, calls,
                   emits, answered>>

(* degradeAndContinue: m.client.Fetch.ContinueRequest(ctx, {RequestID}) *)
degradeAndContinue == PlainCall("ContinueRequest")

DegradeCall ==
    /\ cpc = "degrade_call"
    /\ calls' = [calls EXCEPT ![cev] = Append(@, degradeAndContinue)]
    /\ answered' = answered \cup {cev}
    /\ cpc' = "degrade_emit"
    /\ UNCHANGED <<xvars, svars, rvars, lvars, evars, cfgvars, received, cev, fate, pvars, hvars, avars, events,
                   emits>>

(* degradeAndContinue: m.events <- model.Event{Type: "degraded"} *)
DegradeEmit ==
    /\ cpc = "degrade_emit"
    /\ events < EventsCap
    /\ events' = events + 1
    /\ emits' = [emits EXCEPT ![cev] = Append(@, "degraded")]
    /\ cpc' = "degrade_ret"
    /\ UNCHANGED <<xvars, svars, rvars, lvars, evars, cfgvars, received, cev, fate, pvars, hvars, avars, calls,
                   answered>>

(* degradeAndContinue returns (the deferred cancel), dispatchPaused       *)
(* returns, and consume loops                                              *)
DegradeReturn ==
    /\ cpc = "degrade_ret"
    /\ calls' = [calls EXCEPT ![cev] = <<>>]
    /\ emits' = [emits EXCEPT ![cev] = <<>>]
    /\ cpc' = "recv"
    /\ cev' = 0
    /\ UNCHANGED <<xvars, svars, rvars, lvars, evars, cfgvars, received, fate, pvars, hvars, avars, events,
                   answered>>

(* ---------------------------------------------------------------------- *)
(* workerPool.worker                                                       *)
(* ---------------------------------------------------------------------- *)

(* case fn := <-p.queue: fn() *)
WorkerTake(w) ==
    /\ wstate[w] = "idle"
    /\ queue # <<>>
    /\ wstate' = [wstate EXCEPT ![w] = "busy"]
    /\ wev' = [wev EXCEPT ![w] = Head(queue)]
    /\ queue' = Tail(queue)
    /\ hpc' = [hpc EXCEPT ![Head(queue)] = "intercepted"]
    /\ UNCHANGED <<xvars, svars, rvars, lvars, evars, expired, cfgvars, cvars, stage, path, act, mut, avars, events, calls,
                   emits, answered>>

(* case <-ctx.Done(): return *)
WorkerExit(w) ==
    /\ wstate[w] = "idle"
    /\ ctxDone
    /\ wstate' = [wstate EXCEPT ![w] = "exited"]
    /\ UNCHANGED <<xvars, svars, rvars, lvars, evars, cfgvars, cvars, queue, wev, hvars, avars, events, calls,
                   emits, answered>>

(* handle returns (the deferred cancel): its locals are gone, and fn()    *)
(* returns in the worker that ran it, which goes back to its select        *)
HReturn(e) ==
    /\ hpc[e] = "ret"
    /\ hpc' = [hpc EXCEPT ![e] = "done"]
    /\ stage' = [stage EXCEPT ![e] = "request"]
    /\ path' = [path EXCEPT ![e] = "none"]
    /\ act' = [act EXCEPT ![e] = NoResult]
    /\ mut' = [mut EXCEPT ![e] = NilRewrite]
    /\ expired' = [expired EXCEPT ![e] = FALSE]
    /\ calls' = [calls EXCEPT ![e] = <<>>]
    /\ emits' = [emits EXCEPT ![e] = <<>>]
    /\ wstate' = [w \in Workers |->
                    IF wstate[w] = "busy" /\ wev[w] = e THEN "idle" ELSE wstate[w]]
    /\ wev' = [w \in Workers |->
                    IF wstate[w] = "busy" /\ wev[w] = e THEN 0 ELSE wev[w]]
    /\ UNCHANGED <<xvars, svars, rvars, lvars, evars, cfgvars, cvars, queue, avars, events, answered>>

(* ---------------------------------------------------------------------- *)
(* Manager.handle                                                          *)
(* ---------------------------------------------------------------------- *)

(* m.events <- model.Event{Type: "intercepted"}: a blocking channel send *)
HIntercepted(e) ==
    /\ hpc[e] = "intercepted"
    /\ events < EventsCap
    /\ events' = events + 1
    /\ emits' = [emits EXCEPT ![e] = Append(@, "intercepted")]
    /\ hpc' = [hpc EXCEPT ![e] = "decide"]
    /\ UNCHANGED <<xvars, svars, rvars, lvars, evars, expired, cfgvars, cvars, pvars, stage, path, act, mut, avars, calls, answered>>

(* the branch of handle: a is res.Action, hit is rand.Float64() <         *)
(* a.DropRate, late is elapsed > processTimeoutMS after the DelayMS sleep  *)
Branch(a, hit, late) ==
    IF a.kind = "nil" THEN "nomatch"
    ELSE IF a.DropRate /\ hit THEN "drop"
    ELSE IF late THEN "late"
    ELSE IF a.kind = "none" THEN "plain"
    ELSE a.kind

(* stg, res := m.decide(ev, stg), and the checks up to the first call *)
HDecide(e) ==
    /\ hpc[e] = "decide"
    /\ \E s \in Stages, a \in ActionInputs, hit \in BOOLEAN, late \in BOOLEAN :
          /\ stage' = [stage EXCEPT ![e] = s]
          /\ act' = [act EXCEPT ![e] = a]
          /\ path' = [path EXCEPT ![e] = Branch(a, hit, late)]
          /\ hpc' = [hpc EXCEPT ![e] =
                        IF Branch(a, hit, late) = "pause" THEN "p_register" ELSE "call"]
    /\ UNCHANGED <<xvars, svars, rvars, lvars, evars, expired, cfgvars, cvars, pvars, mut, avars, events, calls, emits, answered>>

(* the adapter call of the branch handle took *)
HandleCall(e, bodyOK) ==
    CASE path[e] = "fail" -> applyFail
      [] path[e] = "respond" -> applyRespond(stage[e], "S", "nil", act[e].body)
      [] path[e] = "rewrite" -> applyRewrite(stage[e], act[e].rw, bodyOK)
      [] OTHER -> applyContinue(stage[e])

(* the event type handle sends after the call *)
HandleEventType(e) ==
    CASE path[e] = "fail" -> "failed"
      [] path[e] = "respond" -> "fulfilled"
      [] path[e] = "rewrite" -> "mutated"
      [] OTHER -> "degraded"

HCall(e) ==
    /\ hpc[e] = "call"
    /\ \E bodyOK \in BOOLEAN :
          calls' = [calls EXCEPT ![e] = Append(@, HandleCall(e, bodyOK))]
    /\ answered' = answered \cup {e}
    /\ hpc' = [hpc EXCEPT ![e] =
                  IF path[e] \in {"nomatch", "plain"} THEN "ret" ELSE "emit"]
    /\ UNCHANGED <<xvars, svars, rvars, lvars, evars, expired, cfgvars, cvars, pvars, stage, path, act, mut, avars, events,
                   emits>>

(* m.events <- model.Event{Type: ...} after the call, then return *)
HEmit(e) ==
    /\ hpc[e] = "emit"
    /\ events < EventsCap
    /\ events' = events + 1
    /\ emits' = [emits EXCEPT ![e] = Append(@, HandleEventType(e))]
    /\ hpc' = [hpc EXCEPT ![e] = "ret"]
    /\ UNCHANGED <<xvars, svars, rvars, lvars, evars, expired, cfgvars, cvars, pvars, stage, path, act, mut, avars, calls,
                   answered>>

(* ---------------------------------------------------------------------- *)
(* Manager.applyPause                                                      *)
(* ---------------------------------------------------------------------- *)

(* registerApproval: m.approvals[id] = make(chan rulespec.Rewrite, 1) *)
registerApproval(e) ==
    /\ hpc[e] = "p_register"
    /\ approvals' = approvals \cup {e}
    /\ apch' = [apch EXCEPT ![e] = <<>>]
    /\ hpc' = [hpc EXCEPT ![e] = "p_send"]
    /\ UNCHANGED <<xvars, svars, rvars, lvars, evars, expired, cfgvars, cvars, pvars, stage, path, act, mut, timer, pending,
                   events, calls, emits, answered>>

(* sendPendingItem: select { case m.pending <- item: default: overflow } *)
pendingFull == ~pendingNil /\ Len(pending) >= PendingCap

sendPendingItem(e) ==
    /\ hpc[e] = "p_send"
    /\ IF pendingFull
       THEN /\ pending' = pending
            /\ path' = [path EXCEPT ![e] = "overflow"]
            /\ hpc' = [hpc EXCEPT ![e] = "p_ovf_call"]
       ELSE /\ pending' = IF pendingNil THEN pending ELSE Append(pending, e)
            /\ path' = path
            /\ hpc' = [hpc EXCEPT ![e] = "p_wait"]
    /\ UNCHANGED <<xvars, svars, rvars, lvars, evars, expired, cfgvars, cvars, pvars, stage, act, mut, timer, approvals,
                   apch, events, calls, emits, answered>>

(* handlePauseOverflow: m.applyPauseDefaultAction(ctx, ev, p, stage) *)
OverflowCall(e) ==
    /\ hpc[e] = "p_ovf_call"
    /\ calls' = [calls EXCEPT
                    ![e] = Append(@, applyPauseDefaultAction(act[e].def, stage[e]))]
    /\ answered' = answered \cup {e}
    /\ hpc' = [hpc EXCEPT ![e] = "p_ovf_emit"]
    /\ UNCHANGED <<xvars, svars, rvars, lvars, evars, expired, cfgvars, cvars, pvars, stage, path, act, mut, avars, events,
                   emits>>

(* handlePauseOverflow: m.events <- model.Event{Type: "degraded"} *)
OverflowEmit(e) ==
    /\ hpc[e] = "p_ovf_emit"
    /\ events < EventsCap
    /\ events' = events + 1
    /\ emits' = [emits EXCEPT ![e] = Append(@, "degraded")]
    /\ hpc' = [hpc EXCEPT ![e] = "p_ovf_del"]
    /\ UNCHANGED <<xvars, svars, rvars, lvars, evars, expired, cfgvars, cvars, pvars, stage, path, act, mut, avars, calls, answered>>

(* a handlePauseOverflow that leaves the approval entry registered *)
OverflowDelete_keep(e) ==
    /\ hpc[e] = "p_ovf_del"
    /\ hpc' = [hpc EXCEPT ![e] = "ret"]
    /\ UNCHANGED <<xvars, svars, rvars, lvars, evars, expired, cfgvars, cvars, pvars, stage, path, act, mut, avars,
                   events, calls, emits, answered>>

(* handlePauseOverflow: delete(m.approvals, id); the channel is no       *)
(* longer reachable                                                        *)
OverflowDelete(e) ==
    /\ hpc[e] = "p_ovf_del"
    /\ approvals' = approvals \ {e}
    /\ apch' = [apch EXCEPT ![e] = <<>>]
    /\ hpc' = [hpc EXCEPT ![e] = "ret"]
    /\ UNCHANGED <<xvars, svars, rvars, lvars, evars, expired, cfgvars, cvars, pvars, stage, path, act, mut, timer, pending,
                   events, calls, emits, answered>>

(* the timer of waitForApproval fires after timeoutMS *)
TimerFire(e) ==
    /\ hpc[e] = "p_wait"
    /\ ~timer[e]
    /\ timer' = [timer EXCEPT ![e] = TRUE]
    /\ UNCHANGED <<xvars, svars, rvars, lvars, evars, cfgvars, cvars, pvars, hvars, approvals, apch, pending,
                   events, calls, emits, answered>>

(* waitForApproval: case mut := <-ch; the deferred t.Stop() *)
WaitApproved(e) ==
    /\ hpc[e] = "p_wait"
    /\ apch[e] # <<>>
    /\ mut' = [mut EXCEPT ![e] = Head(apch[e])]
    /\ apch' = [apch EXCEPT ![e] = Tail(@)]
    /\ timer' = [timer EXCEPT ![e] = FALSE]
    /\ path' = [path EXCEPT ![e] = "approved"]
    /\ hpc' = [hpc EXCEPT ![e] = "p_call"]
    /\ UNCHANGED <<xvars, svars, rvars, lvars, evars, expired, cfgvars, cvars, pvars, stage, act, approvals, pending,
                   events, calls, emits, answered>>

(* waitForApproval: case <-t.C *)
WaitTimeout(e) ==
    /\ hpc[e] = "p_wait"
    /\ timer[e]
    /\ timer' = [timer EXCEPT ![e] = FALSE]
    /\ path' = [path EXCEPT ![e] = "timeout"]
    /\ hpc' = [hpc EXCEPT ![e] = "p_call"]
    /\ UNCHANGED <<xvars, svars, rvars, lvars, evars, expired, cfgvars, cvars, pvars, stage, act, mut, approvals, apch,
                   pending, events, calls, emits, answered>>

(* the call applyApprovalResult makes; approved is mut != nil *)
ApprovalCall(approved, m, def, stg, bodyOK) ==
    IF approved
    THEN IF hasEffectiveMutations(m)
         THEN applyRewrite(stg, m, bodyOK)
         ELSE applyContinue(stg)
    ELSE applyPauseDefaultAction(def, stg)

applyApprovalResult(e) ==
    /\ hpc[e] = "p_call"
    /\ \E bodyOK \in BOOLEAN :
          calls' = [calls EXCEPT ![e] =
                       Append(@, ApprovalCall(path[e] = "approved", mut[e],
                                              act[e].def, stage[e], bodyOK))]
    /\ answered' = answered \cup {e}
    /\ hpc' = [hpc EXCEPT ![e] = "p_unreg"]
    /\ UNCHANGED <<xvars, svars, rvars, lvars, evars, expired, cfgvars, cvars, pvars, stage, path, act, mut, avars, events,
                   emits>>

(* an applyPause after which handle falls through to its last statement *)
unregisterApproval_fall(e) ==
    /\ hpc[e] = "p_unreg"
    /\ approvals' = approvals \ {e}
    /\ apch' = [apch EXCEPT ![e] = <<>>]
    /\ hpc' = [hpc EXCEPT ![e] = "call"]
    /\ UNCHANGED <<xvars, svars, rvars, lvars, evars, expired, cfgvars, cvars, pvars, stage, path, act, mut, timer, pending,
                   events, calls, emits, answered>>

(* an applyPause that returns without unregisterApproval *)
unregisterApproval_skip(e) ==
    /\ hpc[e] = "p_unreg"
    /\ hpc' = [hpc EXCEPT ![e] = "ret"]
    /\ UNCHANGED <<xvars, svars, rvars, lvars, evars, expired, cfgvars, cvars, pvars, stage, path, act, mut, avars,
                   events, calls, emits, answered>>

(* unregisterApproval; the channel is no longer reachable *)
unregisterApproval(e) ==
    /\ hpc[e] = "p_unreg"
    /\ approvals' = approvals \ {e}
    /\ apch' = [apch EXCEPT ![e] = <<>>]
    /\ hpc' = [hpc EXCEPT ![e] = "ret"]
    /\ UNCHANGED <<xvars, svars, rvars, lvars, evars, expired, cfgvars, cvars, pvars, stage, path, act, mut, timer, pending,
                   events, calls, emits, answered>>

(* ---------------------------------------------------------------------- *)
(* Calls from outside: Approve, Detach, and the readers of the channels    *)
(* ---------------------------------------------------------------------- *)

(* an Approve that sends to the approval channel with a plain send *)
Approve_send(e, rw) ==
    /\ e \in approvals
    /\ Len(apch[e]) < 1
    /\ apch' = [apch EXCEPT ![e] = Append(@, rw)]
    /\ UNCHANGED <<xvars, svars, rvars, lvars, evars, cfgvars, cvars, pvars, hvars, timer, approvals, pending,
                   events, calls, emits, answered>>

(* Approve: ch, ok := m.approvals[itemID];                                 *)
(* if ok: select { case ch <- mutations: default: }                        *)
Approve(e, rw) ==
    /\ IF e \in approvals /\ Len(apch[e]) < 1
       THEN apch' = [apch EXCEPT ![e] = Append(@, rw)]
       ELSE apch' = apch
    /\ UNCHANGED <<xvars, svars, rvars, lvars, evars, cfgvars, cvars, pvars, hvars, timer, approvals, pending,
                   events, calls, emits, answered>>

(* Detach: m.cancel() *)
Detach ==
    /\ ~ctxDone
    /\ ctxDone' = TRUE
    /\ UNCHANGED <<xvars, svars, rvars, lvars, evars, poolMode, pendingNil, cvars, pvars, hvars, avars, events,
                   calls, emits, answered>>

(* the front-end receives from the events channel *)
ReadEvent ==
    /\ events > 0
    /\ events' = events - 1
    /\ UNCHANGED <<xvars, svars, rvars, lvars, evars, cfgvars, cvars, pvars, hvars, avars, calls, emits, answered>>

(* the front-end receives from the pending channel *)
ReadPending ==
    /\ pending # <<>>
    /\ pending' = Tail(pending)
    /\ UNCHANGED <<xvars, svars, rvars, lvars, evars, cfgvars, cvars, pvars, hvars, timer, approvals, apch,
                   events, calls, emits, answered>>

(* ---------------------------------------------------------------------- *)
(* Engine.Update and one call of Engine.Eval, statement by statement       *)
(* ---------------------------------------------------------------------- *)

(* Update: e.rs = rs, a plain assignment with no lock *)
Update(new) ==
    /\ version < MaxUpdates
    /\ rs' = new
    /\ version' = version + 1
    /\ UNCHANGED <<xvars, svars, rvars, lvars, mvars, epc, en, ei, chosen, reads>>

(* Eval, first statement: if len(e.rs.Rules) == 0 return nil *)
EvalLen ==
    /\ epc = "idle"
    /\ reads' = reads \cup {version}
    /\ epc' = IF Len(rs) = 0 THEN "done" ELSE "range"
    /\ UNCHANGED <<xvars, svars, rvars, lvars, mvars, rs, version, en, ei, chosen>>

(* Eval: for i := range e.rs.Rules evaluates the slice once *)
EvalRange ==
    /\ epc = "range"
    /\ reads' = reads \cup {version}
    /\ en' = Len(rs)
    /\ ei' = 1
    /\ epc' = IF Len(rs) = 0 THEN "done" ELSE "loop"
    /\ UNCHANGED <<xvars, svars, rvars, lvars, mvars, rs, version, chosen>>

(* Eval: one iteration; r := &e.rs.Rules[i] reads the slice again *)
EvalIter ==
    /\ epc = "loop"
    /\ IF ei > Len(rs)
       THEN /\ epc' = "panic"
            /\ UNCHANGED <<ei, chosen, reads>>
       ELSE LET r == rs[ei]
                take == Chooses(r, chosen)
                stop == take /\ r.Mode = "short_circuit"
            IN  /\ reads' = reads \cup {version}
                /\ chosen' = IF take THEN <<r, version, ei>> ELSE chosen
                /\ ei' = ei + 1
                /\ epc' = IF stop \/ ei + 1 > en THEN "done" ELSE "loop"
    /\ UNCHANGED <<xvars, svars, rvars, lvars, mvars, rs, version, en>>

NextEngine ==
    \/ \E new \in UpdateInputs : Update(new)
    \/ EvalLen
    \/ EvalRange
    \/ EvalIter

InitEval ==
    /\ InitManager
    /\ poolMode = "sem"
    /\ pendingNil = FALSE
    /\ InitEngine
    /\ InitBinding
    /\ InitPool
    /\ InitRule
    /\ InitStageIdle
    /\ rs \in RuleLists

SpecEngine == InitEval /\ [][NextEngine]_vars

(* ---------------------------------------------------------------------- *)
(* The manager's own steps, and all steps                                  *)
(* ---------------------------------------------------------------------- *)
HandlerStep(e) ==
    \/ HIntercepted(e) \/ HDecide(e) \/ HCall(e) \/ HEmit(e)
    \/ registerApproval(e) \/ sendPendingItem(e)
    \/ OverflowCall(e) \/ OverflowEmit(e) \/ OverflowDelete(e)
    \/ WaitApproved(e) \/ WaitTimeout(e)
    \/ applyApprovalResult(e) \/ unregisterApproval(e) \/ HReturn(e)

(* every step of the manager's goroutines; Recv, the arrival of a new    *)
(* paused event from the browser, is not one of them                       *)
ManagerStep ==
    \/ RecvError \/ DispatchGo \/ DispatchSubmit
    \/ DegradeCall \/ DegradeEmit \/ DegradeReturn
    \/ \E w \in Workers : WorkerTake(w) \/ WorkerExit(w)
    \/ \E e \in Events : HandlerStep(e) \/ TimerFire(e)

Next ==
    \/ Recv
    \/ RecvError
    \/ DispatchGo
    \/ DispatchSubmit
    \/ DegradeCall
    \/ DegradeEmit
    \/ DegradeReturn
    \/ \E w \in Workers : WorkerTake(w)
    \/ \E w \in Workers : WorkerExit(w)
    \/ \E e \in Events : HIntercepted(e)
    \/ \E e \in Events : HDecide(e)
    \/ \E e \in Events : HCall(e)
    \/ \E e \in Events : HEmit(e)
    \/ \E e \in Events : registerApproval(e)
    \/ \E e \in Events : sendPendingItem(e)
    \/ \E e \in Events : OverflowCall(e)
    \/ \E e \in Events : OverflowEmit(e)
    \/ \E e \in Events : OverflowDelete(e)
    \/ \E e \in Events : TimerFire(e)
    \/ \E e \in Events : WaitApproved(e)
    \/ \E e \in Events : WaitTimeout(e)
    \/ \E e \in Events : applyApprovalResult(e)
    \/ \E e \in Events : unregisterApproval(e)
    \/ \E e \in Events : HReturn(e)
    \/ \E e \in Events, rw \in RewriteInputs : Approve(e, rw)
    \/ Detach
    \/ ReadEvent
    \/ ReadPending

Spec == Init /\ [][Next]_vars

(* ---------------------------------------------------------------------- *)
(* AttachTarget, attachAuto, Enable, Detach and the callers of             *)
(* attachAndEnable                                                         *)
(* ---------------------------------------------------------------------- *)

(* resolveTarget and rpcc.DialContext: the target the attach ends with,   *)
(* "" when the listing fails, no target is found or the dial fails         *)
Resolved(target) ==
    IF target = "" THEN Targets \cup {""} ELSE {target, ""}

(* the part AttachTarget and attachAuto share, under attachMu: cancel the *)
(* old context, close the old connection, make a new context, resolve,     *)
(* dial, and on success set conn, client and currentTarget                 *)
Bind(sel, why) ==
    /\ mctx < MaxContexts
    /\ cancelled' = IF mctx = 0 THEN cancelled ELSE cancelled \cup {mctx}
    /\ mctx' = mctx + 1
    /\ cause' = why
    /\ hasClient' = (hasClient \/ sel # "")
    /\ connOpen' = (sel # "")
    /\ currentTarget' = IF sel # "" THEN sel ELSE currentTarget
    /\ mclient' = IF sel # "" THEN mctx + 1 ELSE mclient
    /\ fetchEnabled' = FALSE

AttachTargetBody(target, sel, why) ==
    /\ fixedTarget' = target
    /\ mode' = IF target # "" THEN "fixed" ELSE "auto"
    /\ Bind(sel, why)
    /\ workspaceStop' = IF sel = "" THEN workspaceStop ELSE (target = "")
    /\ watchers' = IF sel = "" \/ target = "" THEN watchers ELSE {}

attachAuto(sel, why) ==
    /\ Bind(sel, why)
    /\ UNCHANGED <<fixedTarget, mode, workspaceStop, watchers>>

(* no panic has ended the process *)
running == stopMonitor # "panicked"

(* Enable: fails without a client, on a closed connection or a cancelled  *)
(* context; otherwise starts the pool and go m.consume()                   *)
canEnable == hasClient /\ connOpen /\ mctx \notin cancelled

(* the handlers a worker of pool p started with context g is running *)
busy(p, g) == Cardinality({ x \in Paused : xwork[x] = <<p, g>> })

(* workerPool.start(ctx) on pool p: cap(p.sem) workers, and a monitor *)
start(p, g) == [idle EXCEPT ![p][g] = @ + newWorkerPool.sem]

canStart(p, g) == idle[p][g] + busy(p, g) + newWorkerPool.sem <= MaxWorkers

EnableBody ==
    IF canEnable
    THEN /\ consumers' = [consumers EXCEPT ![mctx] = @ + 1]
         /\ fetchEnabled' = TRUE
         /\ IF mpool # 0
            THEN /\ idle' = start(mpool, mctx)
                 /\ stopMonitor' = "open"
            ELSE UNCHANGED <<idle, stopMonitor>>
    ELSE UNCHANGED <<consumers, fetchEnabled, idle, stopMonitor>>

(* the bounds of the model on what Enable starts *)
mayEnable ==
    canEnable => /\ consumers[mctx] < MaxConsume
                 /\ mpool # 0 => canStart(mpool, mctx)

(* AttachTarget called by the user of the manager *)
AttachTarget(target) ==
    /\ running
    /\ \E sel \in Resolved(target) :
          /\ AttachTargetBody(target, sel, "user")
          /\ pinned' = IF sel # "" THEN target ELSE ""
          /\ failed' = (sel = "")
    /\ detached' = FALSE
    /\ UNCHANGED <<svars, rvars, mvars, evars, consumers, tasks, ticking, mpool,
                   stopMonitor, idle, pq, xpc, origin, parent, via, xwork>>

(* Enable called by the user of the manager *)
Enable ==
    /\ running
    /\ mayEnable
    /\ EnableBody
    /\ UNCHANGED <<svars, rvars, mvars, evars, fixedTarget, mode, currentTarget, mctx, cancelled,
                   hasClient, connOpen, workspaceStop, watchers, tasks, pinned,
                   detached, cause, ticking, failed, mclient, mpool, pq, xpc,
                   origin, parent, via, xwork>>

(* Disable: an error without a client, else Fetch.Disable on m.client;   *)
(* consume keeps reading                                                   *)
Disable ==
    /\ running
    /\ fetchEnabled' = IF canEnable THEN FALSE ELSE fetchEnabled
    /\ UNCHANGED <<svars, rvars, mvars, evars, lvars, ticking, failed, mclient, mpool,
                   stopMonitor, idle, pq, xpc, origin, parent, via, xwork>>

(* Detach called by the user of the manager: m.cancel(), then pool.stop, *)
(* which closes stopMonitor whenever it is not nil. Closing the channel a  *)
(* second time is a panic: the rest of Detach does not run and the process *)
(* ends                                                                    *)
DetachBinding ==
    /\ running
    /\ cancelled' = IF mctx = 0 THEN cancelled ELSE cancelled \cup {mctx}
    /\ IF stopMonitor = "closed"
       THEN /\ stopMonitor' = "panicked"
            /\ UNCHANGED <<workspaceStop, watchers, connOpen, fetchEnabled, pinned,
                           detached, failed>>
       ELSE /\ stopMonitor' = IF stopMonitor = "open" THEN "closed" ELSE stopMonitor
            /\ workspaceStop' = FALSE
            /\ watchers' = {}
            /\ connOpen' = FALSE
            /\ fetchEnabled' = FALSE
            /\ pinned' = ""
            /\ detached' = TRUE
            /\ failed' = FALSE
    /\ UNCHANGED <<svars, rvars, mvars, evars, fixedTarget, mode, currentTarget, mctx, hasClient,
                   consumers, tasks, cause, ticking, mclient, mpool, idle, pq, xpc,
                   origin, parent, via, xwork>>

(* an attachAndEnable call that passed the checks of its caller *)
Task(kind, target, auto) ==
    [kind |-> kind, target |-> target, auto |-> auto, step |-> "attach"]

(* attachAndEnable, first half: attachAuto or AttachTarget *)
TaskAttach(t) ==
    /\ running
    /\ t \in tasks
    /\ t.step = "attach"
    /\ \E sel \in Resolved(t.target) :
          /\ IF t.auto THEN attachAuto(sel, t.kind)
                       ELSE AttachTargetBody(t.target, sel, t.kind)
          /\ tasks' = IF sel = "" THEN tasks \ {t}
                      ELSE (tasks \ {t}) \cup {[t EXCEPT !.step = "enable"]}
    /\ UNCHANGED <<svars, rvars, mvars, evars, consumers, pinned, detached, ticking,
                   failed, mpool, stopMonitor, idle, pq, xpc, origin, parent, via,
                   xwork>>

(* attachAndEnable, second half: Enable *)
TaskEnable(t) ==
    /\ running
    /\ t \in tasks
    /\ t.step = "enable"
    /\ mayEnable
    /\ EnableBody
    /\ tasks' = tasks \ {t}
    /\ UNCHANGED <<svars, rvars, mvars, evars, fixedTarget, mode, currentTarget, mctx, cancelled,
                   hasClient, connOpen, workspaceStop, watchers, pinned, detached,
                   cause, ticking, failed, mclient, mpool, pq, xpc, origin,
                   parent, via, xwork>>

(* rp.Recv() of a consume goroutine fails (its context was cancelled, or  *)
(* the connection broke), and handleStreamError decides on a reconnect     *)
handleStreamError(g) ==
    /\ running
    /\ consumers[g] > 0
    /\ consumers' = [consumers EXCEPT ![g] = @ - 1]
    /\ IF mctx = 0 \/ mctx \in cancelled
       THEN tasks' = tasks
       ELSE /\ Cardinality(tasks) < MaxTasks
            /\ tasks' = tasks \cup {Task("stream", fixedTarget, fixedTarget = "")}
    /\ UNCHANGED <<xvars, svars, rvars, mvars, evars, fixedTarget, mode, currentTarget, mctx, cancelled,
                   hasClient, connOpen, workspaceStop, watchers, pinned, detached,
                   cause>>

(* a tick of workspaceLoop: checkWorkspace up to dt.List, which it does  *)
(* with no target fixed                                                    *)
tick ==
    /\ running
    /\ workspaceStop
    /\ fixedTarget = ""
    /\ ~ticking
    /\ ticking' = TRUE
    /\ UNCHANGED <<svars, rvars, mvars, evars, lvars, failed, fetchEnabled, mclient, mpool,
                   stopMonitor, idle, pq, xpc, origin, parent, via, xwork>>

(* checkWorkspace after dt.List: listed are the user pages               *)
(* refreshWatchers sees, candidate is what selectAutoTarget returns        *)
checkWorkspace(listed, candidate) ==
    /\ running
    /\ ticking
    /\ ticking' = FALSE
    /\ watchers' = listed
    /\ IF candidate = "" \/ currentTarget = candidate
       THEN tasks' = tasks
       ELSE /\ Cardinality(tasks) < MaxTasks
            /\ tasks' = tasks \cup {Task("poll", candidate, TRUE)}
    /\ UNCHANGED <<svars, rvars, mvars, evars, fixedTarget, mode, currentTarget, mctx, cancelled,
                   hasClient, connOpen, workspaceStop, consumers, pinned, detached,
                   cause, failed, fetchEnabled, mclient, mpool, stopMonitor, idle,
                   pq, xpc, origin, parent, via, xwork>>

(* checkWorkspace when dt.List fails *)
listFails ==
    /\ running
    /\ ticking
    /\ ticking' = FALSE
    /\ UNCHANGED <<svars, rvars, mvars, evars, lvars, failed, fetchEnabled, mclient, mpool,
                   stopMonitor, idle, pq, xpc, origin, parent, via, xwork>>

onTargetVisible_always(id) ==
    /\ running
    /\ id \in watchers
    /\ IF mode # "auto"
       THEN tasks' = tasks
       ELSE /\ Cardinality(tasks) < MaxTasks
            /\ tasks' = tasks \cup {Task("visible", id, TRUE)}
    /\ UNCHANGED <<xvars, svars, rvars, mvars, evars, fixedTarget, mode, currentTarget, mctx, cancelled,
                   hasClient, connOpen, workspaceStop, watchers, consumers, pinned,
                   detached, cause>>

(* the watcher of target id receives a visible lifecycle event *)
onTargetVisible(id) ==
    /\ running
    /\ id \in watchers
    /\ IF mode # "auto" \/ currentTarget = id
       THEN tasks' = tasks
       ELSE /\ Cardinality(tasks) < MaxTasks
            /\ tasks' = tasks \cup {Task("visible", id, TRUE)}
    /\ UNCHANGED <<xvars, svars, rvars, mvars, evars, fixedTarget, mode, currentTarget, mctx, cancelled,
                   hasClient, connOpen, workspaceStop, watchers, consumers, pinned,
                   detached, cause>>

NextAttach ==
    \/ \E target \in Targets \cup {""} : AttachTarget(target)
    \/ Enable
    \/ Disable
    \/ DetachBinding
    \/ \E t \in tasks : TaskAttach(t)
    \/ \E t \in tasks : TaskEnable(t)
    \/ \E g \in Contexts : handleStreamError(g)
    \/ tick
    \/ \E listed \in SUBSET Targets, candidate \in Targets \cup {""} :
          checkWorkspace(listed, candidate)
    \/ listFails
    \/ \E id \in Targets : onTargetVisible(id)

InitAttach ==
    /\ Init
    /\ poolMode = "sem"
    /\ pendingNil = FALSE

SpecAttach == InitAttach /\ [][NextAttach]_vars

(* ---------------------------------------------------------------------- *)
(* The worker pool across SetConcurrency, Enable and target switches       *)
(* ---------------------------------------------------------------------- *)

(* SetConcurrency(n) with n > 0: a new pool replaces m.pool, and is       *)
(* started when m.ctx != nil                                               *)
SetConcurrency ==
    /\ running
    /\ mpool < MaxPools
    /\ mpool' = mpool + 1
    /\ IF mctx # 0
       THEN /\ idle' = start(mpool + 1, mctx)
            /\ stopMonitor' = "open"
       ELSE /\ idle' = idle
            /\ stopMonitor' = "nil"
    /\ UNCHANGED <<svars, rvars, mvars, evars, lvars, ticking, failed, fetchEnabled, mclient,
                   pq, xpc, origin, parent, via, xwork>>

(* consume of the live binding receives paused event x, and               *)
(* dispatchPaused hands it on: go handle without a pool, else submit, and  *)
(* degradeAndContinue when the queue is full                               *)
dispatchPaused(x) ==
    /\ running
    /\ xpc[x] = "none"
    /\ \A y \in Paused : y < x => xpc[y] # "none"
    /\ canEnable
    /\ fetchEnabled
    /\ consumers[mctx] > 0
    /\ origin' = [origin EXCEPT ![x] = mctx]
    /\ IF mpool = 0
       THEN /\ xpc' = [xpc EXCEPT ![x] = "start"]
            /\ UNCHANGED <<pq, parent, via>>
       ELSE IF submitted(pq[mpool])
       THEN /\ pq' = [pq EXCEPT ![mpool] = submit(@, x)]
            /\ xpc' = [xpc EXCEPT ![x] = "queued"]
            /\ UNCHANGED <<parent, via>>
       ELSE /\ parent' = [parent EXCEPT ![x] = mctx]
            /\ via' = [via EXCEPT ![x] = mclient]
            /\ xpc' = [xpc EXCEPT ![x] = "done"]
            /\ pq' = pq
    /\ UNCHANGED <<svars, rvars, mvars, evars, lvars, ticking, failed, fetchEnabled, mclient,
                   mpool, stopMonitor, idle, xwork>>

(* worker of pool p started with context g: case fn := <-p.queue; Go's   *)
(* select may take this case also when ctx.Done() is ready                 *)
worker(p, g) ==
    /\ running
    /\ idle[p][g] > 0
    /\ pq[p] # <<>>
    /\ idle' = [idle EXCEPT ![p][g] = @ - 1]
    /\ pq' = [pq EXCEPT ![p] = Tail(@)]
    /\ xwork' = [xwork EXCEPT ![Head(pq[p])] = <<p, g>>]
    /\ xpc' = [xpc EXCEPT ![Head(pq[p])] = "start"]
    /\ UNCHANGED <<svars, rvars, mvars, evars, lvars, ticking, failed, fetchEnabled, mclient,
                   mpool, stopMonitor, origin, parent, via>>

(* worker: case <-ctx.Done(): return *)
workerDone(p, g) ==
    /\ running
    /\ idle[p][g] > 0
    /\ g \in cancelled
    /\ idle' = [idle EXCEPT ![p][g] = @ - 1]
    /\ UNCHANGED <<svars, rvars, mvars, evars, lvars, ticking, failed, fetchEnabled, mclient,
                   mpool, stopMonitor, pq, xpc, origin, parent, via, xwork>>

(* handle: ctx, cancel := context.WithTimeout(m.ctx, ...) *)
handle(x) ==
    /\ running
    /\ xpc[x] = "start"
    /\ parent' = [parent EXCEPT ![x] = mctx]
    /\ xpc' = [xpc EXCEPT ![x] = "call"]
    /\ UNCHANGED <<svars, rvars, mvars, evars, lvars, ticking, failed, fetchEnabled, mclient,
                   mpool, stopMonitor, idle, pq, origin, via, xwork>>

(* the terminating call of handle, m.client.Fetch...(ctx, args): it goes  *)
(* out on the connection of m.client unless that is closed or ctx is done  *)
answer(x) ==
    /\ running
    /\ xpc[x] = "call"
    /\ via' = [via EXCEPT ![x] = IF connOpen /\ parent[x] \notin cancelled
                                 THEN mclient ELSE 0]
    /\ xpc' = [xpc EXCEPT ![x] = "ret"]
    /\ UNCHANGED <<svars, rvars, mvars, evars, lvars, ticking, failed, fetchEnabled, mclient,
                   mpool, stopMonitor, idle, pq, origin, parent, xwork>>

(* handle returns, and the worker that ran it is back in its select *)
handleReturns(x) ==
    /\ running
    /\ xpc[x] = "ret"
    /\ xpc' = [xpc EXCEPT ![x] = "done"]
    /\ xwork' = [xwork EXCEPT ![x] = <<0, 0>>]
    /\ idle' = IF xwork[x] = <<0, 0>> THEN idle
               ELSE [idle EXCEPT ![xwork[x][1]][xwork[x][2]] = @ + 1]
    /\ UNCHANGED <<svars, rvars, mvars, evars, lvars, ticking, failed, fetchEnabled, mclient,
                   mpool, stopMonitor, pq, origin, parent, via>>

NextPool ==
    \/ \E target \in Targets : AttachTarget(target)
    \/ Enable
    \/ DetachBinding
    \/ SetConcurrency
    \/ \E x \in Paused : dispatchPaused(x)
    \/ \E p \in Pools, g \in Contexts : worker(p, g)
    \/ \E p \in Pools, g \in Contexts : workerDone(p, g)
    \/ \E x \in Paused : handle(x)
    \/ \E x \in Paused : answer(x)
    \/ \E x \in Paused : handleReturns(x)

SpecPool == InitAttach /\ [][NextPool]_vars

(* ---------------------------------------------------------------------- *)
(* One event through decide and applyRewrite                               *)
(* ---------------------------------------------------------------------- *)

(* buildRuleContext: lower-case the header names, take the content type,  *)
(* and at response stage fetch the body when shouldGetBody allows it       *)
buildRuleContext ==
    /\ fpc = "build"
    /\ \E h \in LowerCased(ev.Headers),
          ct \in FoldValues(ev.Headers, Lit("content-type"), ""),
          fetched \in BOOLEAN :
          LET clen == clenOf(ev.ContentLength)
              ctype == IF ev.stage = "response" THEN ct
                       ELSE IF Lit("content-type") \in DOMAIN h
                            THEN h[Lit("content-type")] ELSE ""
              get == ev.stage = "response"
                       /\ shouldGetBody(ctype, clen, bodySizeThreshold)
          IN  /\ ~get => fetched
              /\ bodyCalls' = IF get THEN bodyCalls + 1 ELSE bodyCalls
              /\ rctx' = [Headers |-> h, ContentType |-> ctype,
                          hasBody |-> fetched, Stage |-> ev.stage]
    /\ fpc' = "eval"
    /\ UNCHANGED <<xvars, svars, mvars, evars, lvars, ev, rule, bodySizeThreshold, matched,
                   newBody, out>>

(* Engine.Eval on the one rule *)
EvalRule ==
    /\ fpc = "eval"
    /\ matched' = matchRule(rctx, rule)
    /\ fpc' = IF matched' THEN "rewrite" ELSE "continue"
    /\ UNCHANGED <<xvars, svars, mvars, evars, lvars, ev, rule, bodySizeThreshold, rctx,
                   bodyCalls, newBody, out>>

(* handle with no result: applyContinue *)
NoMatch ==
    /\ fpc = "continue"
    /\ out' = applyContinue(ev.stage)
    /\ fpc' = "done"
    /\ UNCHANGED <<xvars, svars, mvars, evars, lvars, ev, rule, bodySizeThreshold, rctx,
                   matched, bodyCalls, newBody>>

(* applyRewrite of the rule's rewrite: at response stage a body rewrite   *)
(* passes shouldGetBody and fetchResponseBody before applyBodyPatch        *)
Rewrite ==
    /\ fpc = "rewrite"
    /\ \E ct \in FoldValues(ev.Headers, Lit("content-type"), ""),
          fetched \in BOOLEAN :
          LET get == shouldGetBody(ct, clenOf(ev.ContentLength), bodySizeThreshold)
              response == ev.stage = "response" /\ rule.rw.Body # "nil"
              patched == applyBodyPatch(ev.Body, rule.patch)
          IN  /\ ~(response /\ get) => fetched
              /\ bodyCalls' = IF response /\ get THEN bodyCalls + 1 ELSE bodyCalls
              /\ newBody' = IF rule.rw.Body = "nil" THEN NoBody
                            ELSE IF response /\ ~get THEN [NoBody EXCEPT !.why = "gate"]
                            ELSE IF ~fetched THEN [NoBody EXCEPT !.why = "fetch"]
                            ELSE patched
              /\ out' = applyRewrite(ev.stage, rule.rw, newBody'.ok)
    /\ fpc' = "done"
    /\ UNCHANGED <<xvars, svars, mvars, evars, lvars, ev, rule, bodySizeThreshold, rctx, matched>>

NextRule ==
    \/ buildRuleContext
    \/ EvalRule
    \/ NoMatch
    \/ Rewrite

(* the events and rules of one specification *)
InitHandle(evs, rules, thrs) ==
    /\ InitManager
    /\ poolMode = "sem"
    /\ pendingNil = FALSE
    /\ InitEngine
    /\ rs = <<>>
    /\ InitBinding
    /\ InitPool
    /\ InitStageIdle
    /\ ev \in evs
    /\ rule \in rules
    /\ bodySizeThreshold \in thrs
    /\ rctx = NoCtx
    /\ matched = FALSE
    /\ bodyCalls = 0
    /\ newBody = NoBody
    /\ out = PlainCall("none")
    /\ fpc = "build"

(* header conditions against headers of every capitalisation *)
InitMatch ==
    InitHandle([stage : Stages, Headers : HeaderMaps(Names, {"x", "y"}),
                ContentLength : {<<>>}, Body : {EmptyDoc}],
               [AllOf : { <<c>> : c \in Conditions(Names, {"x", "y"}) },
                AnyOf : {<<>>}, NoneOf : {<<>>},
                rw : {[NilRewrite EXCEPT !.Headers = "H"]}, patch : {<<>>}],
               {0})

SpecMatch == InitMatch /\ [][NextRule]_vars

(* a condition no event of the specifications below satisfies *)
Never == [Type |-> "header", Key |-> Lit("x-a"), Op |-> "equals", Value |-> "x"]

(* responses with a Content-Type and a Content-Length, against a rule     *)
(* whose rewrite has a body patch                                          *)
ResponseHeaders(ctype) ==
    [k \in {<<"content-type", "Title">>} |-> ctype]

InitBody ==
    InitHandle({ [stage |-> "response", Headers |-> ResponseHeaders(ct),
                  ContentLength |-> cl, Body |-> EmptyDoc] :
                     ct \in ContentTypes, cl \in ContentLengths },
               [AllOf : {<<>>, <<Never>>}, AnyOf : {<<>>}, NoneOf : {<<>>},
                rw : {[NilRewrite EXCEPT !.Body = "B"]},
                patch : {<< [Op |-> "add", Path |-> "k", Value |-> 1, From |-> "k"] >>}],
               {0, DefaultThreshold + 1})

SpecBody == InitBody /\ [][NextRule]_vars

(* JSON bodies against a rule whose rewrite sets headers and patches the  *)
(* body                                                                    *)
InitPatch ==
    InitHandle([stage : Stages,
                Headers : {ResponseHeaders("application/json")},
                ContentLength : {<<>>}, Body : Docs],
               [AllOf : {<<>>, <<Never>>}, AnyOf : {<<>>}, NoneOf : {<<>>},
                rw : {[NilRewrite EXCEPT !.Headers = "H", !.Body = "B"]},
                patch : Patches],
               {0})

SpecPatch == InitPatch /\ [][NextRule]_vars

(* ---------------------------------------------------------------------- *)
(* The matched rules of one event, executed for one stage                  *)
(* ---------------------------------------------------------------------- *)

(* if mut.Block != nil: the loop ends at this rule *)
stopAtBlock_never(m) == FALSE

stopAtBlock(m) == m.Block

(* if mut.Body != nil { currentBody = *mut.Body } *)
nextBody_keep(cur, m) == cur

nextBody(cur, m) == IF m.Body # "nil" THEN m.Body ELSE cur

(* one iteration of the loop over matchedRules; past the last rule the    *)
(* loop is left                                                            *)
computeMutation ==
    /\ spc = "loop"
    /\ IF si > Len(matchedRules)
       THEN /\ spc' = "apply"
            /\ UNCHANGED <<si, executed, aggregatedMut, blockRule, responseBody, ranOn>>
       ELSE LET r == matchedRules[si]
            IN  IF r.kind = "noactions"
                THEN /\ si' = si + 1
                     /\ UNCHANGED <<spc, executed, aggregatedMut, blockRule, responseBody,
                                    ranOn>>
                ELSE /\ executed' = executed \cup {si}
                     /\ ranOn' = [i \in executed \cup {si} |->
                                    IF i = si THEN responseBody ELSE ranOn[i]]
                     /\ IF r.kind = "nil"
                        THEN /\ si' = si + 1
                             /\ UNCHANGED <<spc, aggregatedMut, blockRule, responseBody>>
                        ELSE IF sstage = "request" /\ stopAtBlock(r.mut)
                        THEN /\ blockRule' = si
                             /\ aggregatedMut' = <<r.mut>>
                             /\ spc' = "apply"
                             /\ UNCHANGED <<si, responseBody>>
                        ELSE /\ aggregatedMut' =
                                  IF aggregatedMut = <<>> THEN <<r.mut>>
                                  ELSE IF sstage = "request"
                                       THEN <<mergeRequestMutation(aggregatedMut[1], r.mut)>>
                                       ELSE <<mergeResponseMutation(aggregatedMut[1], r.mut)>>
                             /\ responseBody' =
                                  IF sstage = "response"
                                  THEN nextBody(responseBody, r.mut) ELSE responseBody
                             /\ si' = si + 1
                             /\ UNCHANGED <<spc, blockRule>>
    /\ UNCHANGED <<xvars, mvars, evars, lvars, rvars, impl, sstage, matchedRules,
                   originalBody, scall, sevent, fvars>>

(* blocked, modified or passed *)
finalResult ==
    IF blockRule # 0 THEN "blocked"
    ELSE IF aggregatedMut = <<>> THEN "passed"
    ELSE IF sstage = "request" /\ hasRequestMutation(aggregatedMut[1]) THEN "modified"
    ELSE IF sstage = "response" /\ hasResponseMutation(aggregatedMut[1]) THEN "modified"
    ELSE "passed"

(* the call that ends the stage *)
applyMutation ==
    /\ spc = "apply"
    /\ scall' =
         IF sstage = "request"
         THEN IF finalResult = "passed"
              THEN [op |-> "ContinueRequest", reason |-> "", mut |-> NilMutation]
              ELSE ApplyRequestMutation(aggregatedMut[1])
         ELSE IF finalResult = "passed"
              THEN [op |-> "ContinueResponse", reason |-> "", mut |-> NilMutation]
              ELSE ApplyResponseMutation(
                     [aggregatedMut[1] EXCEPT
                        !.Body = IF @ = "nil" /\ responseBody # ""
                                 THEN responseBody ELSE @])
    /\ spc' = "emit"
    /\ UNCHANGED <<xvars, mvars, evars, lvars, rvars, impl, sstage, matchedRules,
                   aggregatedMut, si, executed, blockRule, responseBody, originalBody,
                   ranOn, sevent, fvars>>

(* the event of the stage: the manager names the blocking rule and sends  *)
(* nothing for a passed event, the handler lists buildRuleMatches of all   *)
(* matched rules; a send to a full channel drops the event                 *)
stageEvent ==
    IF impl = "manager"
    THEN IF finalResult = "blocked" THEN [Type |-> "blocked", Rules |-> {blockRule}]
         ELSE IF finalResult = "modified" THEN [Type |-> "mutated", Rules |-> {}]
         ELSE NoEvent
    ELSE [Type |-> finalResult, Rules |-> DOMAIN matchedRules]

emitEvent ==
    /\ spc = "emit"
    /\ sevent' \in {stageEvent, NoEvent}
    /\ spc' = "done"
    /\ UNCHANGED <<xvars, mvars, evars, lvars, rvars, impl, sstage, matchedRules,
                   aggregatedMut, si, executed, blockRule, responseBody, originalBody,
                   ranOn, scall, fvars>>

NextStage ==
    \/ computeMutation
    \/ applyMutation
    \/ emitEvent

InitStage ==
    /\ InitManager
    /\ poolMode = "sem"
    /\ pendingNil = FALSE
    /\ InitEngine
    /\ rs = <<>>
    /\ InitBinding
    /\ InitPool
    /\ InitRule
    /\ impl \in {"manager", "handler"}
    /\ sstage \in Stages
    /\ matchedRules \in MatchedRules(IF sstage = "request" THEN RequestMutations
                                     ELSE ResponseMutations)
    /\ responseBody \in IF sstage = "request" THEN {""} ELSE {"", "o"}
    /\ originalBody = responseBody
    /\ ranOn = [i \in {} |-> ""]
    /\ InitCallIdle
    /\ aggregatedMut = <<>>
    /\ si = 1
    /\ executed = {}
    /\ blockRule = 0
    /\ scall = NoCall
    /\ sevent = NoEvent
    /\ spc = "loop"

SpecStage == InitStage /\ [][NextStage]_vars

(* ---------------------------------------------------------------------- *)
(* Faults while an event is handled in a pool worker                       *)
(* ---------------------------------------------------------------------- *)

(* the handler panics in decide (Eval indexes e.rs.Rules out of range     *)
(* after an Update to a shorter rule set). worker calls fn() with no       *)
(* deferred recover, so the panic leaves the goroutine and ends the        *)
(* process: no goroutine of the manager takes another step                 *)
HPanic(e) ==
    /\ hpc[e] = "decide"
    /\ hpc' = [x \in Events |->
                 IF x = e THEN "panic"
                 ELSE IF hpc[x] \in {"none", "done"} THEN hpc[x] ELSE "dead"]
    /\ cpc' = "dead"
    /\ wstate' = [w \in Workers |-> "exited"]
    /\ UNCHANGED <<xvars, svars, rvars, lvars, evars, cfgvars, received, cev, fate, queue, wev, stage, path, act,
                   mut, expired, avars, events, calls, emits, answered>>

(* the deadline of ctx, context.WithTimeout(m.ctx, processTimeoutMS),     *)
(* passes while the handler waits in waitForApproval (an expiry during     *)
(* the DelayMS sleep is the late branch of handle)                         *)
BudgetExpire(e) ==
    /\ hpc[e] = "p_wait"
    /\ ~expired[e]
    /\ expired' = [expired EXCEPT ![e] = TRUE]
    /\ UNCHANGED <<xvars, svars, rvars, lvars, evars, cfgvars, cvars, pvars, hpc, stage, path, act, mut, avars,
                   events, calls, emits, answered>>

(* a manager with a bounded pool, with the faults *)
InitFaults ==
    /\ Init
    /\ poolMode = "sem"

NextFaults ==
    \/ Recv
    \/ RecvError
    \/ DispatchSubmit
    \/ DegradeCall
    \/ DegradeEmit
    \/ DegradeReturn
    \/ \E w \in Workers : WorkerTake(w)
    \/ \E w \in Workers : WorkerExit(w)
    \/ \E e \in Events : HIntercepted(e)
    \/ \E e \in Events : HDecide(e)
    \/ \E e \in Events : HCall(e)
    \/ \E e \in Events : HEmit(e)
    \/ \E e \in Events : registerApproval(e)
    \/ \E e \in Events : sendPendingItem(e)
    \/ \E e \in Events : OverflowCall(e)
    \/ \E e \in Events : OverflowEmit(e)
    \/ \E e \in Events : OverflowDelete(e)
    \/ \E e \in Events : TimerFire(e)
    \/ \E e \in Events : WaitApproved(e)
    \/ \E e \in Events : WaitTimeout(e)
    \/ \E e \in Events : applyApprovalResult(e)
    \/ \E e \in Events : unregisterApproval(e)
    \/ \E e \in Events : HReturn(e)
    \/ \E e \in Events, rw \in RewriteInputs : Approve(e, rw)
    \/ Detach
    \/ ReadEvent
    \/ ReadPending
    \/ \E e \in Events : HPanic(e)
    \/ \E e \in Events : BudgetExpire(e)

SpecFaults == InitFaults /\ [][NextFaults]_vars

(* ---------------------------------------------------------------------- *)
(* Properties                                                              *)
(* ---------------------------------------------------------------------- *)

(* C1: a terminating adapter call is issued for a paused event only when  *)
(* none was issued for it before, on every path of handle and of           *)
(* degradeAndContinue: while the event is handled its calls are at most    *)
(* one, and that one is ContinueRequest, ContinueResponse, FulfillRequest  *)
(* or FailRequest                                                          *)
C1_AtMostOneTerminatingCall ==
    [][\A e \in Events :
          (calls'[e] # calls[e] /\ calls'[e] # <<>>) =>
              /\ e \notin answered
              /\ calls[e] = <<>>
              /\ Len(calls'[e]) = 1
              /\ calls'[e][1].op \in TerminatingOps]_vars

(* an event paused for approval and approved has got its one call while   *)
(* another event has got its call as well                                  *)
C1_Witness ==
    \E e \in Events :
        /\ path[e] = "approved"
        /\ Len(calls[e]) = 1
        /\ answered \ {e} # {}

(* C2: every paused event consume received and that has no terminating   *)
(* call yet can still get one: some goroutine of the manager has a step    *)
(* to take, whatever the readers of the channels do                        *)
C2_UnansweredCanProgress ==
    \A e \in Events :
        (fate[e] # "stream" /\ e \notin answered) => ENABLED ManagerStep

(* C3: submit never blocks and never lets the queue grow beyond 2N; an    *)
(* event it refused is not queued, its handler is never run, and           *)
(* degradeAndContinue issues one unmodified ContinueRequest for it and     *)
(* sends one degraded event before it returns                              *)
C3_SubmitNeverBlocks ==
    /\ Len(queue) <= newWorkerPool.queueCap
    /\ (cpc = "dispatch" /\ poolMode = "sem") => ENABLED DispatchSubmit
    /\ \A e \in Events :
          fate[e] = "dropped" =>
              /\ hpc[e] = "none"
              /\ \A i \in DOMAIN queue : queue[i] # e
              /\ \A w \in Workers : wev[w] # e
              /\ (cev = e) => cpc \in {"degrade_call", "degrade_emit", "degrade_ret"}
              /\ (cev = e /\ cpc = "degrade_call") =>
                    (calls[e] = <<>> /\ emits[e] = <<>> /\ e \notin answered)
              /\ (cev = e /\ cpc = "degrade_emit") =>
                    (calls[e] = <<PlainCall("ContinueRequest")>> /\ emits[e] = <<>>)
              /\ (cev = e /\ cpc = "degrade_ret") =>
                    /\ calls[e] = <<PlainCall("ContinueRequest")>>
                    /\ emits[e] = <<"degraded">>
              /\ (cev # e) => e \in answered

(* submit refused an event while the queue held 2N tasks, and              *)
(* degradeAndContinue has made its call and sent its event                 *)
C3_Witness ==
    /\ cpc = "degrade_ret"
    /\ fate[cev] = "dropped"
    /\ Len(queue) = newWorkerPool.queueCap

(* C4: a handler or degradeAndContinue that is about to send to the       *)
(* events channel can always take its step, also when the channel is full  *)
C4_EmitNeverBlocks ==
    /\ cpc = "degrade_emit" => ENABLED DegradeEmit
    /\ \A e \in Events :
          hpc[e] \in {"intercepted", "emit", "p_ovf_emit"} => ENABLED HandlerStep(e)

(* C5: one evaluation takes its length and its rules from one rule set *)
C5_OneSnapshot == Cardinality(reads) <= 1

(* C6: evaluation returns no rule declared after the first matching rule  *)
(* whose mode is short_circuit                                             *)
C6_ShortCircuitStops ==
    (epc = "done" /\ version = 0 /\ chosen # <<>>) =>
        \A j \in DOMAIN rs :
            (rs[j].match /\ rs[j].Mode = "short_circuit") => chosen[3] <= j

(* C7: when every matching rule is aggregate, evaluation returns all the  *)
(* matching rules in declaration order                                     *)
C7_AggregateReturnsAll ==
    (/\ epc = "done"
     /\ version = 0
     /\ \A j \in DOMAIN rs : rs[j].match => rs[j].Mode = "aggregate") =>
        LET returned == IF chosen = <<>> THEN {} ELSE {chosen[3]}
        IN  returned = {j \in DOMAIN rs : rs[j].match}

(* C8: a handler whose pause ended by its timer has applied the default   *)
(* action once and has sent a timeout event when it returns                *)
C8_TimeoutEventEmitted ==
    \A e \in Events :
        (hpc[e] = "ret" /\ path[e] = "timeout") =>
            /\ calls[e] = <<applyPauseDefaultAction(act[e].def, stage[e])>>
            /\ \E i \in DOMAIN emits[e] : emits[e][i] = "timeout"

(* C9: a pause that finds the pending queue full enqueues nothing and     *)
(* does not wait: its next steps are the default action, one degraded      *)
(* event and the removal of its approval entry                             *)
C9_PendingOverflow ==
    [][\A e \in Events :
          /\ (path'[e] = "overflow" /\ path[e] # "overflow") =>
                (pendingFull /\ pending' = pending /\ e \in approvals)
          /\ path'[e] = "overflow" =>
                LET def == applyPauseDefaultAction(act'[e].def, stage'[e])
                IN  /\ \A i \in DOMAIN pending' : pending'[i] # e
                    /\ ~timer'[e]
                    /\ mut'[e] = NilRewrite
                    /\ hpc'[e] \in {"p_ovf_call", "p_ovf_emit", "p_ovf_del", "ret"}
                    /\ hpc'[e] = "p_ovf_call" =>
                          (calls'[e] = <<>> /\ emits'[e] = <<"intercepted">>)
                    /\ hpc'[e] = "p_ovf_emit" =>
                          (calls'[e] = <<def>> /\ emits'[e] = <<"intercepted">>)
                    /\ hpc'[e] = "p_ovf_del" =>
                          /\ calls'[e] = <<def>>
                          /\ emits'[e] = <<"intercepted", "degraded">>
                    /\ hpc'[e] = "ret" =>
                          /\ calls'[e] = <<def>>
                          /\ emits'[e] = <<"intercepted", "degraded">>
                          /\ e \notin approvals']_vars

(* a pause found the pending queue full and its handler is about to       *)
(* return: the default action is applied, degraded is sent, the entry is   *)
(* gone, and the queue still holds the item of the earlier pause           *)
C9_Witness ==
    \E e \in Events :
        /\ hpc[e] = "ret"
        /\ path[e] = "overflow"
        /\ e \notin approvals
        /\ Len(calls[e]) = 1
        /\ Len(pending) = PendingCap

(* C10: a handler whose pause ended by an approval has answered with the  *)
(* rewrite Approve delivered, or with an unmodified continue when that     *)
(* rewrite is empty, and has sent an approved event when it returns        *)
C10_ApprovedEventEmitted ==
    \A e \in Events :
        (hpc[e] = "ret" /\ path[e] = "approved") =>
            /\ Len(calls[e]) = 1
            /\ (stage[e] = "request" /\ mut[e].URL # "nil") =>
                  (calls[e][1].op = "ContinueRequest" /\ calls[e][1].url = mut[e].URL)
            /\ ~hasEffectiveMutations(mut[e]) => calls[e][1] = applyContinue(stage[e])
            /\ \E i \in DOMAIN emits[e] : emits[e][i] = "approved"

(* C11: Approve always returns: it can be called in every state, for      *)
(* every id and rewrite; it changes nothing when the id has no registered  *)
(* approval channel, and nothing when the single slot of the channel       *)
(* still holds an approval that was not consumed                           *)
C11_ApproveNeverBlocks ==
    \A e \in Events, rw \in RewriteInputs :
        /\ ENABLED Approve(e, rw)
        /\ Len(apch[e]) <= 1
        /\ (e \notin approvals \/ Len(apch[e]) = 1) =>
              ~ENABLED (Approve(e, rw) /\ vars' # vars)

(* one approval is delivered and not yet consumed by its waiting handler, *)
(* and another id has no registered channel                                *)
C11_Witness ==
    \E e \in Events :
        /\ e \in approvals
        /\ hpc[e] = "p_wait"
        /\ Len(apch[e]) = 1
        /\ Events \ approvals # {}

(* C12: after a handler panicked in a pool worker, the event gets its     *)
(* ContinueRequest (it has it, or some goroutine of the manager can still  *)
(* act) and a worker of the pool is still running                          *)
C12_PanicRecovered ==
    \A e \in Events :
        hpc[e] = "panic" =>
            /\ e \in answered \/ ENABLED ManagerStep
            /\ \E w \in Workers : wstate[w] # "exited"

(* C13: a handler whose per-event budget ran out before it issued its     *)
(* call (at the elapsed check, in the body fetch or in the pause wait)     *)
(* returns having answered with an unmodified continue of the stage and    *)
(* having sent a degraded event                                            *)
C13_BudgetDegrades ==
    \A e \in Events :
        (hpc[e] = "ret" /\ (path[e] = "late" \/ expired[e])) =>
            /\ calls[e] = <<applyContinue(stage[e])>>
            /\ emits[e] # <<>>
            /\ emits[e][Len(emits[e])] = "degraded"

(* C14: a handler waiting for a pause approval after the context was      *)
(* cancelled can leave the wait at once, without an approval and without   *)
(* the pause timer                                                         *)
C14_CancelEndsWait ==
    \A e \in Events :
        (ctxDone /\ hpc[e] = "p_wait") => ENABLED (WaitApproved(e) \/ WaitTimeout(e))

(* C15: consume is never blocked in dispatchPaused: while it holds an     *)
(* event it always has its next step to take, whatever the handlers and    *)
(* the readers of the events channel do                                    *)
C15_ConsumeNeverBlocked ==
    (cpc \in {"dispatch", "degrade_call", "degrade_emit", "degrade_ret"}) =>
        ENABLED (DispatchGo \/ DispatchSubmit \/ DegradeCall \/ DegradeEmit
                   \/ DegradeReturn)

(* C16: after AttachTarget(T) with a non-empty T has succeeded, and until *)
(* the next AttachTarget or Detach of the user, currentTarget is T,        *)
(* whatever workspace polling, visible events and stream-error reconnects  *)
(* do                                                                      *)
C16_FixedTargetStays ==
    pinned # "" => currentTarget = pinned

(* C17: once Detach has cancelled the context, and until the user         *)
(* attaches again, no stream error leads to a new attach: the manager has  *)
(* no live context that a stream-error reconnect made                      *)
C17_NoReconnectAfterDetach ==
    detached => ~(cause = "stream" /\ mctx # 0 /\ mctx \notin cancelled)

(* C18: a header condition with op equals matches every event that has a  *)
(* header whose name equals the condition's key ignoring letter case and   *)
(* whose value equals the condition's value, however the key and the       *)
(* header name are capitalised                                             *)
C18_HeaderMatchIgnoresCase ==
    (/\ fpc \in {"rewrite", "continue", "done"}
     /\ \A i \in DOMAIN rule.AllOf :
           \E k \in DOMAIN ev.Headers :
              /\ EqualFold(k, rule.AllOf[i].Key)
              /\ ev.Headers[k] = rule.AllOf[i].Value)
        => matched

(* C19: for a response whose Content-Length is a string of decimal digits *)
(* denoting more than the threshold in force, GetResponseBody is never      *)
(* called, and a matched body rewrite ends with a ContinueResponse that     *)
(* changes nothing                                                          *)
C19_LargeBodyNotFetched ==
    (/\ ev.stage = "response"
     /\ ev.ContentLength # <<>>
     /\ IsDigits(ev.ContentLength)
     /\ Denotes(ev.ContentLength, Len(ev.ContentLength)) > threshold(bodySizeThreshold))
        => /\ bodyCalls = 0
           /\ (fpc = "done" /\ matched) => out = PlainCall("ContinueResponse")

(* C20: when the JSON Patch of a rewrite that also sets headers fails at a *)
(* test operation, the terminating call still carries the header changes    *)
(* of the rewrite and no body                                               *)
C20_FailedTestKeepsHeaders ==
    (/\ fpc = "done"
     /\ matched
     /\ rule.rw.Headers # "nil"
     /\ newBody.why = "test")
        => /\ out.headers = rule.rw.Headers
           /\ out.body = "nil"

(* C21: after the loop over the matched rules (none of them blocking), the *)
(* aggregated mutation has, for URL, method, status and body, the value of  *)
(* the last rule that sets it; for the header, query and cookie maps, every *)
(* key any rule sets, with the value of the last rule setting that key; and *)
(* for every remove list, the rules' lists one after the other, in order.   *)
(* With two rules this is the relation between merge(dst, src), dst and src *)
C21_MergeLastWriterWins ==
    (spc # "loop" /\ blockRule = 0 /\ aggregatedMut # <<>>) =>
        LET agg == aggregatedMut[1]
            muts == { i \in DOMAIN matchedRules : matchedRules[i].kind = "mut" }
            last(S) == CHOOSE i \in S : \A j \in S : j <= i
            scalar(f) ==
                LET S == { i \in muts : matchedRules[i].mut[f] # "nil" }
                IN  IF S = {} THEN "nil" ELSE matchedRules[last(S)].mut[f]
            keys(f) == UNION { DOMAIN matchedRules[i].mut[f] : i \in muts }
            value(f, k) ==
                matchedRules[last({ i \in muts : k \in DOMAIN matchedRules[i].mut[f] })].mut[f][k]
            cat(f) ==
                LET c[n \in 0..Len(matchedRules)] ==
                      IF n = 0 THEN <<>>
                      ELSE c[n - 1] \o (IF n \in muts THEN matchedRules[n].mut[f] ELSE <<>>)
                IN  c[Len(matchedRules)]
        IN  /\ \A f \in {"URL", "Method", "StatusCode", "Body"} : agg[f] = scalar(f)
            /\ \A f \in {"Headers", "Query", "Cookies"} :
                  /\ DOMAIN agg[f] = keys(f)
                  /\ \A k \in keys(f) : agg[f][k] = value(f, k)
            /\ \A f \in {"RemoveHeaders", "RemoveQuery", "RemoveCookies"} :
                  agg[f] = cat(f)

(* two rules that set every field of a request differently were merged *)
C21_Witness ==
    /\ spc = "done"
    /\ sstage = "request"
    /\ blockRule = 0
    /\ Len(matchedRules) = 2
    /\ \A i \in 1..2 : matchedRules[i].kind = "mut"
    /\ matchedRules[1].mut.URL = "a"
    /\ matchedRules[2].mut.URL = "b"
    /\ matchedRules[1].mut.Headers = [k \in MapKeys |-> "a"]
    /\ matchedRules[2].mut.Headers = [k \in MapKeys |-> "b"]
    /\ aggregatedMut[1].URL = "b"
    /\ aggregatedMut[1].Headers = [k \in MapKeys |-> "b"]
    /\ aggregatedMut[1].RemoveHeaders = <<"k1", "k1">>

(* C30: when a request's matched rules have been processed and one of them *)
(* yields a block, the call that ends the stage is the FailRequest of the   *)
(* first such rule's mutation, no rule after that one had its actions       *)
(* executed, and the event, when one is delivered, is of kind blocked and   *)
(* names that rule                                                          *)
C30_FirstBlockWins ==
    LET blocks == { i \in DOMAIN matchedRules :
                      matchedRules[i].kind = "mut" /\ matchedRules[i].mut.Block }
    IN  (sstage = "request" /\ spc = "done" /\ blocks # {}) =>
            LET b == CHOOSE i \in blocks : \A j \in blocks : i <= j
            IN  /\ blockRule = b
                /\ scall = ApplyRequestMutation(matchedRules[b].mut)
                /\ scall.op = "FailRequest"
                /\ \A i \in executed : i <= b
                /\ sevent # NoEvent =>
                      /\ sevent.Type = "blocked"
                      /\ b \in sevent.Rules

(* a blocking rule followed by a rule with a mutation: the request was     *)
(* failed, the event delivered and the second rule not executed            *)
C30_Witness ==
    /\ spc = "done"
    /\ sstage = "request"
    /\ Len(matchedRules) = 2
    /\ matchedRules[1].kind = "mut"
    /\ matchedRules[1].mut.Block
    /\ matchedRules[2].kind = "mut"
    /\ hasRequestMutation(matchedRules[2].mut)
    /\ scall.op = "FailRequest"
    /\ executed = {1}
    /\ sevent.Type = "blocked"
    /\ 1 \in sevent.Rules

(* C22: with a pool of one worker and a queue of two, as long as no        *)
(* handler has completed and the binding is live, none of the first three  *)
(* events delivered is refused by the pool (one runs, two wait), however   *)
(* the worker is scheduled relative to dispatchPaused                       *)
C22_FirstThreeTaken ==
    (/\ poolMode = "sem"
     /\ ~ctxDone
     /\ \A e \in 1..NumEvents : hpc[e] # "done")
        => \A e \in 1..NumEvents :
              e <= PoolSize + newWorkerPool.queueCap => fate[e] # "dropped"

(* C29: the approvals map holds the id of an event only while the handler *)
(* of that event is inside applyPause; once applyPause has ended (by        *)
(* approval, by timeout or by pending overflow) the entry and its channel   *)
(* are gone, and an Approve for that id changes nothing                     *)
C29_EntryOnlyDuringPause ==
    \A e \in Events :
        /\ e \in approvals =>
              hpc[e] \in {"p_send", "p_wait", "p_call", "p_unreg",
                          "p_ovf_call", "p_ovf_emit", "p_ovf_del"}
        /\ hpc[e] \in {"ret", "done"} =>
              /\ e \notin approvals
              /\ apch[e] = <<>>
              /\ \A rw \in RewriteInputs : ~ENABLED (Approve(e, rw) /\ vars' # vars)

(* one pause has ended by approval and one by timeout or overflow, both   *)
(* entries are gone, while the map was in use                              *)
C29_Witness ==
    \E e \in Events :
        /\ hpc[e] = "ret"
        /\ path[e] = "approved"
        /\ e \notin approvals
        /\ \E f \in Events \ {e} : f \in approvals \/ path[f] \in {"timeout", "overflow"}

(* C23: once Detach has returned, and until the user attaches again, the   *)
(* target context is cancelled, the connection is closed, the pool monitor  *)
(* is told to stop, the workspace polling loop is stopped and the watcher   *)
(* map is empty                                                             *)
C23_DetachReleases ==
    detached =>
        /\ mctx = 0 \/ mctx \in cancelled
        /\ ~connOpen
        /\ stopMonitor # "open"
        /\ ~workspaceStop
        /\ watchers = {}

(* C24: before any successful attach no consume goroutine and no worker   *)
(* exists whatever Enable and Disable calls were made; and after an         *)
(* AttachTarget of the user returned an error, no reconnect of the manager *)
(* itself (an attachAndEnable run to its end by a stream error) has left a  *)
(* consume goroutine reading a live binding                                 *)
C24_FailedAttachStaysDisabled ==
    /\ ~hasClient =>
          /\ \A g \in Contexts : consumers[g] = 0
          /\ \A p \in Pools, g \in Contexts : idle[p][g] = 0
          /\ ~fetchEnabled
    /\ failed =>
          ~(/\ cause = "stream"
            /\ mctx \notin cancelled
            /\ consumers[mctx] > 0
            /\ \A t \in tasks : t.kind # "stream")

(* C25: at most one consume goroutine reads the paused stream of a live   *)
(* binding                                                                  *)
C25_OneConsumer ==
    \A g \in Contexts : g \notin cancelled => consumers[g] <= 1

(* C28: the consume goroutine of a replaced binding (its context is       *)
(* cancelled and another one is current) ends without an attachAndEnable   *)
C28_ReplacedConsumerJustEnds ==
    [][\A g \in Contexts :
          (g \in cancelled /\ consumers'[g] < consumers[g]) => tasks' = tasks]_vars

(* C26: a paused event whose handling has begun has its context derived   *)
(* from the binding whose stream delivered it, and an event that was        *)
(* answered was answered on the connection of that binding                  *)
C26_AnsweredOnOwnBinding ==
    \A x \in Paused :
        /\ xpc[x] \in {"call", "ret", "done"} => parent[x] = origin[x]
        /\ (xpc[x] \in {"ret", "done"} /\ via[x] # 0) => via[x] = origin[x]

(* C27: with a pool of N workers configured, at most N handlers are       *)
(* executing in workers of that pool and at most 2N tasks wait in its queue *)
C27_PoolBounds ==
    mpool # 0 =>
        /\ Cardinality({ x \in Paused : xwork[x] # <<0, 0>> /\ xwork[x][1] = mpool })
              <= newWorkerPool.sem
        /\ Len(pq[mpool]) <= newWorkerPool.queueCap

(* ---------------------------------------------------------------------- *)
(* applyRespond and applyPauseDefaultAction called on their own            *)
(* ---------------------------------------------------------------------- *)
MaxCalls == 2

(* rulespec.Respond values: Status "nil" is 0, Headers "nil" the empty map, *)
(* Body "nil" the empty body                                                *)
NoArg == [fn |-> "none", stage |-> "request", Type |-> "nil", Status |-> "nil",
          Headers |-> "nil", Body |-> "nil"]

RespondArgs ==
    { [NoArg EXCEPT !.fn = "applyRespond", !.stage = st, !.Status = c,
                    !.Headers = h, !.Body = b] :
        st \in Stages, c \in {"nil", "S"}, h \in {"nil", "H"}, b \in {"nil", "B"} }

(* the pause's DefaultAction.Status is the token "S" *)
PauseArgs ==
    { [NoArg EXCEPT !.fn = "applyPauseDefaultAction", !.stage = st, !.Type = t,
                    !.Status = "S"] :
        st \in Stages, t \in DefaultActionTypes }

callRespond ==
    /\ Len(arg) < MaxCalls
    /\ \E a \in RespondArgs :
          /\ arg' = Append(arg, a)
          /\ ret' = Append(ret, applyRespond(a.stage, a.Status, a.Headers, a.Body))
    /\ UNCHANGED <<xvars, mvars, evars, lvars, rvars, impl, sstage, matchedRules,
                   aggregatedMut, si, executed, blockRule, responseBody, originalBody,
                   ranOn, scall, sevent, spc>>

callPauseDefault ==
    /\ Len(arg) < MaxCalls
    /\ \E a \in PauseArgs :
          /\ arg' = Append(arg, a)
          /\ ret' = Append(ret, applyPauseDefaultAction(a.Type, a.stage))
    /\ UNCHANGED <<xvars, mvars, evars, lvars, rvars, impl, sstage, matchedRules,
                   aggregatedMut, si, executed, blockRule, responseBody, originalBody,
                   ranOn, scall, sevent, spc>>

NextCalls ==
    \/ callRespond
    \/ callPauseDefault

SpecCalls == Init /\ [][NextCalls]_vars

(* ---------------------------------------------------------------------- *)
(* matchRule called on its own                                             *)
(* ---------------------------------------------------------------------- *)
MaxConds == 2

MatchOps == {"equals", "contains", "regex", "exists"}

(* a map with the one key "k", or without it *)
KeyMaps(values) ==
    { [x \in D |-> v] : D \in SUBSET {"k"}, v \in values }

MatchCtxs ==
    [Headers : KeyMaps({<<"x">>, <<"x", "y">>}),
     Query : KeyMaps({<<"x">>}),
     Cookies : KeyMaps({<<"x">>})]

(* every header, query and cookie condition on the key "k" *)
KeyConds ==
    [Type : {"header", "query", "cookie"}, Key : {"k"}, Op : MatchOps,
     Value : {<<"x">>, <<"y">>, <<"(">>}]

(* the conditions the groups of a Match are built from *)
GroupConds ==
    { [Type |-> "header", Key |-> "k", Op |-> "equals", Value |-> <<"x">>],
      [Type |-> "header", Key |-> "k", Op |-> "contains", Value |-> <<"y">>],
      [Type |-> "header", Key |-> "k", Op |-> "regex", Value |-> <<"(">>],
      [Type |-> "header", Key |-> "k", Op |-> "exists", Value |-> <<"x">>],
      [Type |-> "query", Key |-> "k", Op |-> "regex", Value |-> <<"x">>],
      [Type |-> "cookie", Key |-> "k", Op |-> "exists", Value |-> <<"x">>] }

Groups(n) == UNION { [1..k -> GroupConds] : k \in 0..n }

Matches == [AllOf : Groups(MaxConds), AnyOf : Groups(MaxConds), NoneOf : Groups(1)]

callMatch ==
    /\ arg = <<>>
    /\ \E ctx \in MatchCtxs, m \in Matches :
          /\ arg' = <<[fn |-> "matchRule", ctx |-> ctx, m |-> m]>>
          /\ ret' = <<matchRule(ctx, m)>>
    /\ UNCHANGED <<xvars, mvars, evars, lvars, rvars, impl, sstage, matchedRules,
                   aggregatedMut, si, executed, blockRule, responseBody, originalBody,
                   ranOn, scall, sevent, spc>>

NextCond == callMatch

SpecCond == InitAttach /\ [][NextCond]_vars

(* ---------------------------------------------------------------------- *)
(* decide called on its own, for rules that are declared for a stage       *)
(* ---------------------------------------------------------------------- *)
MaxStaged == 2

(* a rule with the stage it is declared for ("": none); match is          *)
(* matchRule(ctx, r.Match) for the context decide builds                   *)
StagedRules ==
    [Priority : 1..MaxPriority, Mode : Modes, match : BOOLEAN,
     Stage : {"", "request", "response"}]

StagedLists == UNION { [1..n -> StagedRules] : n \in 0..MaxStaged }

(* the loop of Engine.Eval from rule i on *)
RECURSIVE EvalLoop(_, _, _)
EvalLoop(rules, i, chosenRule) ==
    IF i > Len(rules) THEN chosenRule
    ELSE IF Chooses(rules[i], chosenRule)
         THEN IF rules[i].Mode = "short_circuit" THEN <<rules[i]>>
              ELSE EvalLoop(rules, i + 1, <<rules[i]>>)
         ELSE EvalLoop(rules, i + 1, chosenRule)

(* Engine.Eval: <<>> is nil *)
Eval(rules) ==
    IF Len(rules) = 0 THEN <<>> ELSE EvalLoop(rules, 1, <<>>)

(* Manager.decide with an engine: ctx.Stage is set and Eval is called *)
decide(stg, rules) == Eval(rules)

callDecide ==
    /\ Len(arg) < 1
    /\ \E stg \in Stages, rules \in StagedLists :
          /\ arg' = Append(arg, [fn |-> "decide", stage |-> stg, rules |-> rules])
          /\ ret' = Append(ret, decide(stg, rules))
    /\ UNCHANGED <<xvars, mvars, evars, lvars, rvars, impl, sstage, matchedRules,
                   aggregatedMut, si, executed, blockRule, responseBody, originalBody,
                   ranOn, scall, sevent, spc>>

NextDecide == callDecide

SpecDecide == InitAttach /\ [][NextDecide]_vars

(* ---------------------------------------------------------------------- *)
(* selectAutoTarget called on its own                                      *)
(* ---------------------------------------------------------------------- *)
MaxListed == 3

(* a URL is its scheme prefix and how it is capitalised; <<"", "lower">>   *)
(* is the empty string                                                     *)
ListedURLs ==
    { Lit(""), Lit("http://"), <<"https://", "Title">>, Lit("chrome://") }

ListedTargets == [Type : {"page", "service_worker"}, URL : ListedURLs]

TargetLists == UNION { [1..n -> ListedTargets] : n \in 0..MaxListed }

isUserPageURL(raw) ==
    IF raw = Lit("") THEN FALSE
    ELSE ToLower(raw) = Lit("http://") \/ ToLower(raw) = Lit("https://")

(* for i := len(targets) - 1; i >= 0; i--: the index chosen, 0 for none *)
RECURSIVE selectFrom(_, _)
selectFrom(targets, i) ==
    IF i < 1 THEN 0
    ELSE IF targets[i].Type # "page" THEN selectFrom(targets, i - 1)
    ELSE IF ~isUserPageURL(targets[i].URL) THEN selectFrom(targets, i - 1)
    ELSE i

RECURSIVE selectUpFrom(_, _)
selectUpFrom(targets, i) ==
    IF i > Len(targets) THEN 0
    ELSE IF targets[i].Type = "page" /\ isUserPageURL(targets[i].URL) THEN i
    ELSE selectUpFrom(targets, i + 1)

selectAutoTarget_first(targets) ==
    LET sel == selectUpFrom(targets, 1)
    IN  IF sel = 0 /\ Len(targets) > 0 THEN 1 ELSE sel

(* the index of the target returned, 0 for nil *)
selectAutoTarget(targets) ==
    LET sel == selectFrom(targets, Len(targets))
    IN  IF sel = 0 /\ Len(targets) > 0 THEN 1 ELSE sel

callSelect ==
    /\ Len(arg) < 1
    /\ \E targets \in TargetLists :
          /\ arg' = Append(arg, [fn |-> "selectAutoTarget", targets |-> targets])
          /\ ret' = Append(ret, selectAutoTarget(targets))
    /\ UNCHANGED <<xvars, mvars, evars, lvars, rvars, impl, sstage, matchedRules,
                   aggregatedMut, si, executed, blockRule, responseBody, originalBody,
                   ranOn, scall, sevent, spc>>

NextSelect == callSelect

SpecSelect == InitAttach /\ [][NextSelect]_vars

(* C31: at response stage, when the mutation merged from the matched rules *)
(* takes effect and no rule produced a body, the mutation handed to         *)
(* ApplyResponseMutation carries no body, whatever the original body was    *)
C31_StatusOnlyCarriesNoBody ==
    (/\ sstage = "response"
     /\ spc \in {"emit", "done"}
     /\ finalResult = "modified"
     /\ \A i \in DOMAIN matchedRules :
           matchedRules[i].kind = "mut" => matchedRules[i].mut.Body = "nil")
        => scall.mut.Body = "nil"

(* C32: at response stage every executed rule ran on the body of the last *)
(* earlier rule that produced one (on the original body when there is       *)
(* none), and after the loop the current body is that of the last rule that *)
(* produced one                                                             *)
C32_BodiesChain ==
    LET producers(n) == { j \in 1..n : /\ j \in DOMAIN matchedRules
                                        /\ matchedRules[j].kind = "mut"
                                        /\ matchedRules[j].mut.Body # "nil" }
        bodyAfter(n) ==
            IF producers(n) = {} THEN originalBody
            ELSE matchedRules[CHOOSE j \in producers(n) :
                                 \A k \in producers(n) : k <= j].mut.Body
    IN  sstage = "response" =>
            /\ \A i \in executed : ranOn[i] = bodyAfter(i - 1)
            /\ spc \in {"apply", "emit", "done"} =>
                  responseBody = bodyAfter(Len(matchedRules))

(* the first of two rules produced a body that differs from the original, *)
(* the second ran on it and produced another                                *)
C32_Witness ==
    /\ sstage = "response"
    /\ spc = "done"
    /\ originalBody = "o"
    /\ Len(matchedRules) = 2
    /\ executed = {1, 2}
    /\ matchedRules[1].mut.Body = "a"
    /\ matchedRules[2].mut.Body = "b"
    /\ ranOn[2] = "a"
    /\ responseBody = "b"

(* C33: applyPauseDefaultAction issues FulfillRequest with the configured *)
(* status for fulfill, FailRequest for fail, and an unmodified continue of  *)
(* the event's stage for every other type, at either stage                  *)
C33_DefaultActionCalls ==
    \A i \in DOMAIN arg :
        arg[i].fn = "applyPauseDefaultAction" =>
            CASE arg[i].Type = "fulfill" ->
                    ret[i].op = "FulfillRequest" /\ ret[i].code = arg[i].Status
              [] arg[i].Type = "fail" -> ret[i].op = "FailRequest"
              [] OTHER ->
                    ret[i] = PlainCall(IF arg[i].stage = "response"
                                       THEN "ContinueResponse" ELSE "ContinueRequest")

(* C34: a respond action issues FulfillRequest at request stage or with a *)
(* non-empty body, and ContinueResponse overriding status and headers at    *)
(* response stage with an empty body                                        *)
C34_RespondCalls ==
    \A i \in DOMAIN arg :
        arg[i].fn = "applyRespond" =>
            IF arg[i].stage = "request" \/ arg[i].Body # "nil"
            THEN /\ ret[i].op = "FulfillRequest"
                 /\ ret[i].code = arg[i].Status
                 /\ ret[i].headers = arg[i].Headers
                 /\ ret[i].body = arg[i].Body
            ELSE /\ ret[i].op = "ContinueResponse"
                 /\ ret[i].code = arg[i].Status
                 /\ ret[i].headers = arg[i].Headers
                 /\ ret[i].body = "nil"

(* a respond with status and headers but no body was applied at response *)
(* stage, and one with a body too                                          *)
C34_Witness ==
    /\ Len(arg) = 2
    /\ arg[1].fn = "applyRespond" /\ arg[1].stage = "response"
    /\ arg[1].Body = "nil" /\ arg[1].Status = "S" /\ arg[1].Headers = "H"
    /\ ret[1].op = "ContinueResponse"
    /\ arg[2].fn = "applyRespond" /\ arg[2].stage = "response"
    /\ arg[2].Body = "B"
    /\ ret[2].op = "FulfillRequest"

(* C35: matchRule is (every allOf condition holds) and (anyOf is empty or *)
(* some anyOf condition holds) and (no noneOf condition holds); a Match     *)
(* with three empty groups matches every context; a header, query or cookie *)
(* condition whose key the context lacks is false under every op            *)
C35_MatchComposition ==
    \A i \in DOMAIN arg :
        arg[i].fn = "matchRule" =>
            LET ctx == arg[i].ctx
                m == arg[i].m
                mapOf(c) == CASE c.Type = "header" -> ctx.Headers
                              [] c.Type = "query" -> ctx.Query
                              [] OTHER -> ctx.Cookies
            IN  /\ ret[i] =
                     (/\ \A j \in DOMAIN m.AllOf : cond(ctx, m.AllOf[j])
                      /\ \/ m.AnyOf = <<>>
                         \/ \E j \in DOMAIN m.AnyOf : cond(ctx, m.AnyOf[j])
                      /\ \A j \in DOMAIN m.NoneOf : ~cond(ctx, m.NoneOf[j]))
                /\ (m.AllOf = <<>> /\ m.AnyOf = <<>> /\ m.NoneOf = <<>>) => ret[i]
                /\ \A c \in KeyConds :
                      c.Key \notin DOMAIN mapOf(c) => ~cond(ctx, c)

(* a Match whose allOf group holds, whose anyOf group has one condition  *)
(* that holds and one on an absent key, and whose noneOf condition is on   *)
(* an absent key, was matched                                              *)
C35_Witness ==
    /\ Len(arg) = 1
    /\ arg[1].fn = "matchRule"
    /\ DOMAIN arg[1].ctx.Headers = {"k"}
    /\ DOMAIN arg[1].ctx.Query = {}
    /\ DOMAIN arg[1].ctx.Cookies = {}
    /\ Len(arg[1].m.AllOf) = 2
    /\ Len(arg[1].m.AnyOf) = 2
    /\ arg[1].m.AnyOf[1].Type = "query"
    /\ arg[1].m.AnyOf[2].Type = "header"
    /\ Len(arg[1].m.NoneOf) = 1
    /\ arg[1].m.NoneOf[1].Type = "cookie"
    /\ ret[1]

(* C36: evaluation for a stage never returns a rule that is declared for *)
(* the other stage                                                         *)
C36_StageFiltered ==
    \A i \in DOMAIN arg :
        (arg[i].fn = "decide" /\ ret[i] # <<>>) =>
            ret[i][1].Stage \in {"", arg[i].stage}

(* the positions of the pages with an http:// or https:// URL, in any *)
(* capitalisation                                                       *)
UserPages(targets) ==
    { j \in DOMAIN targets : /\ targets[j].Type = "page"
                             /\ targets[j].URL[1] \in {"http://", "https://"} }

(* C38 as claimed: selectAutoTarget returns the last-listed page with an *)
(* http(s) URL when the list has one, and no target when it has none       *)
C38_LastPageOrNone ==
    \A i \in DOMAIN arg :
        arg[i].fn = "selectAutoTarget" =>
            LET pages == UserPages(arg[i].targets)
            IN  IF pages # {}
                THEN ret[i] \in pages /\ \A j \in pages : j <= ret[i]
                ELSE ret[i] = 0

(* C38, amended: selectAutoTarget returns the last-listed page with an   *)
(* http(s) URL when the list has one; when it has none it returns the      *)
(* first listed target, and no target only for the empty list              *)
C38_LastPageElseFirst ==
    \A i \in DOMAIN arg :
        arg[i].fn = "selectAutoTarget" =>
            LET pages == UserPages(arg[i].targets)
            IN  IF pages # {}
                THEN ret[i] \in pages /\ \A j \in pages : j <= ret[i]
                ELSE ret[i] = IF Len(arg[i].targets) > 0 THEN 1 ELSE 0

(* of three listed targets the first two are http(s) pages, the second   *)
(* with a capitalised scheme, and the second was returned                  *)
C38_Witness ==
    /\ Len(arg) = 1
    /\ arg[1].fn = "selectAutoTarget"
    /\ Len(arg[1].targets) = 3
    /\ UserPages(arg[1].targets) = {1, 2}
    /\ arg[1].targets[2].URL = <<"https://", "Title">>
    /\ ret[1] = 2

(* C39: Detach can be called any number of times, also twice in a row *)
(* after interception was enabled with a bounded pool; no call panics      *)
C39_DetachNeverPanics == stopMonitor # "panicked"

(* C40: once Detach has returned, and until the user attaches again, no *)
(* watcher is in the map and no binding made by a workspace poll or by a   *)
(* visible event is live                                                   *)
C40_NoWatcherNoFollowAfterDetach ==
    detached =>
        /\ watchers = {}
        /\ ~(cause \in {"poll", "visible"} /\ mctx # 0 /\ mctx \notin cancelled)

(* C37: a visible event starts an attach only in auto-follow mode, for a *)
(* watched target other than currentTarget (one for the current target    *)
(* starts none); the attach it starts cancels the previous context and     *)
(* replaces the connection, and when it succeeds currentTarget is that     *)
(* target; the enable that follows starts consuming on the live binding    *)
C37_VisibleSwitches ==
    [][/\ \A t \in tasks' \ tasks :
             (t.kind = "visible" /\ t.step = "attach") =>
                 /\ mode = "auto"
                 /\ t.target \in watchers
                 /\ t.target # currentTarget
                 /\ UNCHANGED <<currentTarget, mctx, cancelled, connOpen>>
       /\ \A t \in tasks \ tasks' :
             (t.kind = "visible" /\ t.step = "attach") =>
                 /\ mctx' = mctx + 1
                 /\ mctx # 0 => mctx \in cancelled'
                 /\ IF connOpen'
                    THEN /\ currentTarget' = t.target
                         /\ mctx' \notin cancelled'
                         /\ mclient' = mctx'
                         /\ [t EXCEPT !.step = "enable"] \in tasks'
                    ELSE currentTarget' = currentTarget
       /\ \A t \in tasks \ tasks' :
             (t.kind = "visible" /\ t.step = "enable" /\ canEnable) =>
                 /\ fetchEnabled'
                 /\ consumers'[mctx] = consumers[mctx] + 1
                 /\ UNCHANGED <<currentTarget, mctx, cancelled, connOpen>>]_vars

(* a visible event moved the manager from t1 to t2: the context of the   *)
(* binding to t1 is cancelled and interception is enabled on the new one   *)
C37_Witness ==
    /\ mode = "auto"
    /\ cause = "visible"
    /\ currentTarget = "t2"
    /\ mctx = 2
    /\ cancelled = {1}
    /\ connOpen
    /\ fetchEnabled
    /\ consumers[2] = 1
    /\ tasks = {}
    /\ ~detached

====
